---- MODULE Spec2Model ----
(***************************************************************************)
(* Conversation state machine of the HRMS RAG agent: the compiled graph    *)
(* (app/workflows/rag_graph.py), its nodes (app/workflows/nodes.py), the   *)
(* streaming orchestrator (app/services/chat_service.py) and the HTTP      *)
(* event stream (app/api/v1/endpoints/chat.py).                            *)
(***************************************************************************)
EXTENDS Integers, Sequences, FiniteSets, TLC

VARIABLES
    policy,          \* hitl_settings of prompts.json, fixed for a run
    messages,        \* the thread's checkpointed message sequence
    node,            \* the thread's node pointer (checkpoint "next")
    running,         \* a stream_chat / stream_resume run is in flight
    mode,            \* "none" | "chat" | "resume": the run in flight or last run
    pending,         \* pending interrupt of the thread (NoInterrupt when none)
    resumeVal,       \* resume decision not yet consumed by an interrupt() call
    decision,        \* resume_data.action given to the last stream_resume
    events,          \* events yielded by the orchestrator in the current run
    full_content,    \* stream_*: full_content accumulator
    is_using_tools,  \* stream_*: is_using_tools flag
    http,            \* events written to the HTTP event stream by chat.generate
    executed,        \* tool executions so far: sequence of [id, name]
    approved,        \* call ids for which an approve decision was received
    consumed,        \* the last stream_resume consumed a pending interrupt
    nextId,          \* next tool-call id the model allocates
    startLen,        \* length of the message sequence when the run started
    turns,           \* number of chat turns started on the thread
    resumes,         \* number of resumes that re-entered the graph
    rewrites,        \* rewrite transitions since the last caller message
    steps,           \* node executions in the current run
    gradings,        \* grade judgments since the last caller message
    sensitiveCalls,  \* ids of the sensitive calls declared since the last caller message
    cleaned,         \* the sequence the last decide step handed to the model
    store,           \* vector store: sequence of chunks [owner, vec]
    results,         \* chunk ids returned by the last retrieval, in rank order
    actor,           \* user_id of the turn that ran the last retrieval
    sessions,        \* table agent_sessions: sequence of rows
    now,             \* the clock, in units of 24 hours
    sret,            \* the session operation just performed, its arguments and its result
    lastInit,        \* per session_id, the last create_session not followed by a delete
    ctx,             \* values of the context variable employee_id, per context
    supplied,        \* per concurrent turn, the employee_id given to the orchestrator
    pc,              \* per concurrent turn, its position: "new" | "running" | "done"
    seen,            \* per concurrent turn, the values its tools read from the context
    earlier,         \* per context of a turn, the employee_ids of the turns that ended in it
    checkpoints,     \* checkpointer: per thread_id, the stored message sequence
    known,           \* thread_ids that have a checkpoint
    inTurn,          \* per thread_id, a turn is in flight
    thrTurns,        \* per thread_id, the turns completed
    solo,            \* per thread_id, the messages of its own turns, in order
    tstart,          \* the last turn start: the thread_id given and the one used
    tevents,         \* per thread_id, the thread_ids carried by the events of its turns
    tret,            \* the HR tool invocation just made: its inputs and its outcome
    tables,          \* checkpoint tables and chat history tables: sets of rows
    mret             \* the memory operation just performed and the tables before it

vars == <<policy, messages, node, running, mode, pending, resumeVal, decision,
          events, full_content, is_using_tools, http, executed, approved,
          consumed, nextId, startLen, turns, resumes, rewrites, steps, gradings,
          sensitiveCalls, cleaned, store, results, actor, sessions, now, sret, lastInit,
          ctx, supplied, pc, seen, earlier, checkpoints, known, inTurn, thrTurns, solo, tstart,
          tevents, tret, tables, mret>>

machineVars == <<policy, messages, node, running, mode, pending, resumeVal,
                 decision, events, full_content, is_using_tools, http,
                 executed, approved, consumed, nextId, startLen, turns, resumes,
                 rewrites, steps, gradings, sensitiveCalls, cleaned>>

retrVars == <<store, results, actor>>

sessVars == <<sessions, now, sret, lastInit>>

ctxVars == <<ctx, supplied, pc, seen, earlier>>

thrVars == <<checkpoints, known, inTurn, thrTurns, solo, tstart, tevents>>

toolVars == <<tret>>

memVars == <<tables, mret>>

auxVars == <<sessVars, ctxVars, thrVars, toolVars, memVars>>

\* the variables outside each of the groups above
notSess == <<machineVars, retrVars, ctxVars, thrVars, toolVars, memVars>>
notCtx == <<machineVars, retrVars, sessVars, thrVars, toolVars, memVars>>
notThr == <<machineVars, retrVars, sessVars, ctxVars, toolVars, memVars>>
notTool == <<machineVars, retrVars, sessVars, ctxVars, thrVars, memVars>>
notMem == <<machineVars, retrVars, sessVars, ctxVars, thrVars, toolVars>>

----------------------------------------------------------------------------
\* Bounds of the model

MaxTurns == 1       \* chat turns per thread
MaxResumes == 1     \* resumes per thread that re-enter the graph
MaxCallIds == 2     \* tool-call ids the model may allocate per thread
MaxCalls == 2       \* tool calls declared by one assistant message
MaxSeedLen == 3     \* messages of a checkpoint loaded before a turn
MaxChunks == 6      \* chunks in the vector store
MaxTime == 2        \* ticks of the clock
MaxQLen == 4        \* messages of a sequence handed to _get_latest_user_question

----------------------------------------------------------------------------
\* Names and fixed texts of the program

END == "__end__"

RetrieverName == "retrieve_documents"

SENSITIVE_TOOLS ==
    {"apply_for_leave", "approve_leave_for_employee", "cancel_leave_for_employee",
     "apply_attendance", "approve_attendance_for_employee",
     "cancel_attendance_for_employee", "apply_leave_for_employee"}

\* The tools bound to the model: the retriever, a sensitive HR action and a
\* read-only HR query.
ToolNames ==
    {RetrieverName, "apply_leave_for_employee", "get_leave_balance"}

\* Texts are sequences of streamed chunks; <<>> is the empty string.
UserText == <<"q">>
RewriteText == <<"q2">>
ModelTexts == {<<>>, <<"a">>}
DocsText == <<"d">>
ResultText == <<"r">>
ErrorText == <<"e">>
CancelledText == <<"cancelled">>
FallbackText == <<"fallback">>

Decisions == {"approve", "reject"}

\* hitl_settings of prompts.json: the default (nothing enabled), the
\* node-level gate enabled, and the gate together with tool-level approval
Policies ==
    {[enabled |-> FALSE, use_node_level_gate |-> FALSE, require_approval_for |-> {}],
     [enabled |-> TRUE, use_node_level_gate |-> TRUE, require_approval_for |-> {}],
     [enabled |-> TRUE, use_node_level_gate |-> TRUE,
      require_approval_for |-> {"apply_leave_for_employee"}]}

should_use_node_level_gate(p) ==
    IF ~p.enabled THEN FALSE ELSE p.use_node_level_gate

should_require_approval(p, tool_name) ==
    IF ~p.enabled THEN FALSE ELSE tool_name \in p.require_approval_for

----------------------------------------------------------------------------
\* Messages

HumanMessage(c) == [type |-> "human", content |-> c, calls |-> <<>>, tcid |-> 0, name |-> ""]
AIMessage(c, calls) == [type |-> "ai", content |-> c, calls |-> calls, tcid |-> 0, name |-> ""]
ToolMessage(c, id, n) == [type |-> "tool", content |-> c, calls |-> <<>>, tcid |-> id, name |-> n]

Last(s) == s[Len(s)]

\* generate_query_or_respond, the ids an assistant message declares (an id of
\* 0 stands for a tool call whose id is None, which the code skips)
tool_call_ids(m) == {m.calls[k].id : k \in DOMAIN m.calls} \ {0}

\* generate_query_or_respond, the look-ahead from position j: the declared ids
\* answered by a tool message before the next user message
RECURSIVE found_responses(_, _, _)
found_responses(msgs, j, ids) ==
    IF j > Len(msgs) THEN {}
    ELSE LET here == IF msgs[j].type = "tool" /\ msgs[j].tcid # 0 /\ msgs[j].tcid \in ids
                     THEN {msgs[j].tcid} ELSE {}
         IN IF msgs[j].type = "human" THEN here
            ELSE here \cup found_responses(msgs, j + 1, ids)

\* a repair pass that drops an assistant message only when none of its calls
\* was answered
is_incomplete_unanswered(msgs, i) ==
    /\ msgs[i].type = "ai"
    /\ msgs[i].calls # <<>>
    /\ found_responses(msgs, i + 1, tool_call_ids(msgs[i])) = {}

\* generate_query_or_respond, the test that drops the assistant message at i
is_incomplete(msgs, i) ==
    /\ msgs[i].type = "ai"
    /\ msgs[i].calls # <<>>
    /\ \/ tool_call_ids(msgs[i]) = {}
       \/ found_responses(msgs, i + 1, tool_call_ids(msgs[i])) # tool_call_ids(msgs[i])

\* a repair pass that also drops the tool responses of a dropped assistant
\* message
RECURSIVE cleaned_indices_without_responses(_, _)
cleaned_indices_without_responses(msgs, i) ==
    IF i > Len(msgs) THEN <<>>
    ELSE LET answers_dropped ==
                 /\ msgs[i].type = "tool"
                 /\ \E j \in 1..(i - 1) :
                       is_incomplete(msgs, j) /\ msgs[i].tcid \in tool_call_ids(msgs[j])
         IN (IF is_incomplete(msgs, i) \/ answers_dropped THEN <<>> ELSE <<i>>)
            \o cleaned_indices_without_responses(msgs, i + 1)

\* generate_query_or_respond, the repair pass: the indices of the messages
\* that are appended to cleaned_messages, in order
RECURSIVE cleaned_indices(_, _)
cleaned_indices(msgs, i) ==
    IF i > Len(msgs) THEN <<>>
    ELSE (IF is_incomplete(msgs, i) THEN <<>> ELSE <<i>>) \o cleaned_indices(msgs, i + 1)

\* the sequence handed to the model
cleaned_messages(msgs) ==
    LET idx == cleaned_indices(msgs, 1) IN [k \in 1..Len(idx) |-> msgs[idx[k]]]

----------------------------------------------------------------------------
\* Streaming orchestrator (ChatService.stream_chat / stream_resume)

NoInterrupt == [action |-> "", options |-> {}, ids |-> {}]

\* events of graph.astream_events
ChainStart(n) == [event |-> "on_chain_start", node |-> n, chunk |-> "", intr |-> NoInterrupt]
ChainEnd(n, intr) == [event |-> "on_chain_end", node |-> n, chunk |-> "", intr |-> intr]
ModelStream(n, c) == [event |-> "on_chat_model_stream", node |-> n, chunk |-> c, intr |-> NoInterrupt]

\* the on_chat_model_stream events of a model response with content c
ModelChunks(n, c) == [k \in 1..Len(c) |-> ModelStream(n, c[k])]

\* the events a node run produces when it completes normally
NodeEvents(n, c) == <<ChainStart(n)>> \o ModelChunks(n, c) \o <<ChainEnd(n, NoInterrupt)>>

\* events yielded to the caller
TokenEvent(c) == [type |-> "token", content |-> <<c>>, interrupt_data |-> NoInterrupt]
DoneEvent(c) == [type |-> "done", content |-> c, interrupt_data |-> NoInterrupt]
ErrorEvent == [type |-> "error", content |-> ErrorText, interrupt_data |-> NoInterrupt]
InterruptEvent(d) == [type |-> "interrupt", content |-> <<>>, interrupt_data |-> d]

TerminalTypes == {"done", "interrupt", "error"}

\* the generator's local state at the start of a run
NewStream == [events |-> <<>>, full_content |-> <<>>, is_using_tools |-> FALSE, stopped |-> FALSE]

\* the generator's local state in the run in flight
Stream == [events |-> events, full_content |-> full_content,
           is_using_tools |-> is_using_tools, stopped |-> FALSE]

\* an orchestrator that yields the interrupt event and keeps reading the stream
yield_interrupt_continue(o, d) ==
    [o EXCEPT !.events = Append(@, InterruptEvent(d))]

\* stream_chat / stream_resume: yield the interrupt event, then return
yield_interrupt(o, d) ==
    [o EXCEPT !.events = Append(@, InterruptEvent(d)), !.stopped = TRUE]

\* stream_chat / stream_resume: the token filter on node_name and is_using_tools
streams_token(o, ev) ==
    \/ ev.node = "generate_query_or_respond" /\ ~o.is_using_tools
    \/ ev.node = "generate_answer"

\* stream_chat / stream_resume: the body of the async for loop for one event;
\* kinds are the event types inspected for "__interrupt__"
on_event(o, ev, kinds) ==
    IF o.stopped THEN o
    ELSE LET o1 == [o EXCEPT !.is_using_tools =
                        IF ev.event = "on_chain_start" /\ ev.node = "tools" THEN TRUE
                        ELSE IF ev.event = "on_chain_end" /\ ev.node = "tools" THEN FALSE
                        ELSE @]
         IN IF ev.event \in kinds /\ ev.intr # NoInterrupt
            THEN yield_interrupt(o1, ev.intr)
            ELSE IF ev.event = "on_chat_model_stream" /\ ev.chunk # "" /\ streams_token(o1, ev)
            THEN [o1 EXCEPT !.full_content = Append(@, ev.chunk),
                            !.events = Append(@, TokenEvent(ev.chunk))]
            ELSE o1

RECURSIVE consume(_, _, _)
consume(o, evs, kinds) ==
    IF evs = <<>> THEN o
    ELSE consume(on_event(o, Head(evs), kinds), Tail(evs), kinds)

\* stream_chat / stream_resume: the loop ended, yield completion
yield_done(o) ==
    IF o.stopped THEN o
    ELSE [o EXCEPT !.events = Append(@, DoneEvent(o.full_content)), !.stopped = TRUE]

\* stream_chat / stream_resume: except Exception, yield one error event
yield_error(o) ==
    IF o.stopped THEN o
    ELSE [o EXCEPT !.events = Append(@, ErrorEvent), !.stopped = TRUE]

InterruptKinds(m) == IF m = "chat" THEN {"on_chain_end"} ELSE {"on_chain_end", "on_tool_end"}

\* chat.generate: what the endpoint writes to the HTTP stream for one chunk
generate(h, chunk) ==
    IF chunk.type = "token" THEN Append(h, chunk)
    ELSE IF chunk.type = "done" THEN Append(h, chunk)
    ELSE IF chunk.type = "error" THEN Append(h, chunk)
    ELSE h

RECURSIVE generate_all(_, _)
generate_all(h, chunks) ==
    IF chunks = <<>> THEN h
    ELSE generate_all(generate(h, Head(chunks)), Tail(chunks))

\* The orchestrator's variables after a step that left the generator in state
\* o; only stream_chat has a consumer that writes an HTTP stream (old), and
\* that had yielded n events before.
Yielded(o, m, old, n) ==
    /\ events' = o.events
    /\ full_content' = o.full_content
    /\ is_using_tools' = o.is_using_tools
    /\ http' = IF m = "chat"
               THEN generate_all(old, SubSeq(o.events, n + 1, Len(o.events)))
               ELSE old

----------------------------------------------------------------------------
\* Graph nodes and edges (build_rag_graph, create_workflow_nodes)

\* the compiled graph's entry edge
EntryNode == "generate_query_or_respond"

\* conditional edge after generate_query_or_respond
tools_condition(msg) ==
    IF msg.type = "ai" /\ msg.calls # <<>> THEN "tools" ELSE END

\* grade_documents: messages[-6:]
recent_messages(msgs) ==
    IF Len(msgs) > 6 THEN SubSeq(msgs, Len(msgs) - 5, Len(msgs)) ELSE msgs

tool_responses_in_recent(msgs) ==
    Cardinality({k \in DOMAIN recent_messages(msgs) : recent_messages(msgs)[k].type = "tool"})

\* a grade step that follows the judgment alone
grade_documents_by_score(msgs, score) ==
    IF score = "yes" THEN "generate_answer" ELSE "rewrite_question"

\* grade_documents; score is the grader's binary_score
grade_documents(msgs, score) ==
    IF tool_responses_in_recent(msgs) >= 2 THEN "generate_answer"
    ELSE IF score = "yes" THEN "generate_answer"
    ELSE "rewrite_question"

\* index of the most recent tool message at or before i, 0 when there is none
RECURSIVE last_tool_index(_, _)
last_tool_index(msgs, i) ==
    IF i = 0 THEN 0
    ELSE IF msgs[i].type = "tool" THEN i
    ELSE last_tool_index(msgs, i - 1)

\* route_after_tools: whether grading decides the route
grades(msgs) ==
    LET i == last_tool_index(msgs, Len(msgs))
    IN i # 0 /\ msgs[i].name = RetrieverName

\* grade_documents: whether the grader model is invoked, which is when the
\* loop guard has not returned first and the route depends on the judgment
asks_grader(msgs) ==
    grades(msgs) /\ grade_documents(msgs, "yes") # grade_documents(msgs, "no")

\* route_after_tools
route_after_tools(msgs, score) ==
    IF grades(msgs) THEN grade_documents(msgs, score) ELSE "generate_answer"

\* generate_answer: the context it answers from
answer_context(msgs) ==
    LET i == last_tool_index(msgs, Len(msgs))
        c == IF i = 0 THEN <<>> ELSE msgs[i].content
    IN IF c = <<>> /\ msgs # <<>> THEN Last(msgs).content ELSE c

\* str.strip() == "": the text has no character other than white space
blank(c) == \A i \in DOMAIN c : c[i] = " "

\* generate_answer with the response the model would give: the messages the
\* node returns, the number of model calls it makes, and the node the graph
\* runs next (edge generate_answer -> END)
generate_answer_always_model(msgs, response) ==
    [messages |-> <<AIMessage(response, <<>>)>>, invoked |-> 1, next |-> END]

generate_answer(msgs, response) ==
    LET context == answer_context(msgs)
    IN IF context = <<>> \/ blank(context)
       THEN [messages |-> <<AIMessage(FallbackText, <<>>)>>, invoked |-> 0, next |-> END]
       ELSE [messages |-> <<AIMessage(response, <<>>)>>, invoked |-> 1, next |-> END]

RECURSIVE last_human_index(_, _)
\* index of the most recent human message among the first i, 0 if none
last_human_index(msgs, i) ==
    IF i = 0 THEN 0
    ELSE IF msgs[i].type = "human" THEN i
    ELSE last_human_index(msgs, i - 1)

\* _get_latest_user_question
get_latest_user_question_first(msgs, exclude_last) ==
    IF msgs # <<>> THEN msgs[1].content ELSE <<>>

get_latest_user_question(msgs, exclude_last) ==
    LET searched == IF exclude_last /\ msgs # <<>> THEN Len(msgs) - 1 ELSE Len(msgs)
        i == last_human_index(msgs, searched)
    IN IF i # 0 THEN msgs[i].content
       ELSE IF msgs # <<>> THEN msgs[1].content
       ELSE <<>>

\* apply_leave_for_employee is the tool that calls interrupt() itself
asks_confirmation(p, tool_name) ==
    tool_name = "apply_leave_for_employee" /\ should_require_approval(p, tool_name)

\* the tool calls a model response declares, with fresh ids
WithIds(names, first) ==
    [k \in 1..Len(names) |-> [id |-> first + k - 1, name |-> names[k]]]

\* content of a decide response: a direct response may be empty, a response
\* that declares tool calls streams one chunk before them
ResponseTexts(names) == IF names = <<>> THEN ModelTexts ELSE {<<"a">>}

\* responses the model may give in the decide step: up to MaxCalls calls of
\* distinct tools
CallChoices ==
    {c \in UNION {[1..n -> ToolNames] : n \in 0..MaxCalls} :
        \A i, j \in DOMAIN c : i # j => c[i] # c[j]}

\* ToolNode: whether call k performs its action (the HR write, the query);
\* rv is the resume decision handed to interrupt()
performs(p, calls, rv, k) ==
    asks_confirmation(p, calls[k].name) => rv = "approve"

RECURSIVE performed(_, _, _, _)
performed(p, calls, rv, k) ==
    IF k > Len(calls) THEN <<>>
    ELSE (IF performs(p, calls, rv, k) THEN <<calls[k]>> ELSE <<>>)
         \o performed(p, calls, rv, k + 1)

\* ToolNode: the text a tool call returns; docs tells whether the retriever
\* finds documents
tool_result(p, calls, docs, rv, k) ==
    IF calls[k].name = RetrieverName THEN (IF docs THEN DocsText ELSE <<>>)
    ELSE IF asks_confirmation(p, calls[k].name) /\ rv = "reject" THEN CancelledText
    ELSE ResultText

\* the outcomes of the retrieval of a step: documents found or not (a step
\* without a retriever call has no retrieval outcome to draw)
DocsFound(calls) ==
    IF \E k \in DOMAIN calls : calls[k].name = RetrieverName THEN BOOLEAN ELSE {TRUE}

\* ToolNode: one tool message per declared call, in call order
tool_messages(p, calls, docs, rv) ==
    [k \in 1..Len(calls) |->
        ToolMessage(tool_result(p, calls, docs, rv, k), calls[k].id, calls[k].name)]

\* the calls that reach interrupt() with no decision to return
interrupting(p, calls, rv) ==
    {k \in DOMAIN calls : asks_confirmation(p, calls[k].name) /\ rv = "none"}

\* apply_leave_for_employee: the payload handed to interrupt()
confirmation_request(calls, ks) ==
    [action |-> "admin_leave_application", options |-> {"approve", "reject"},
     ids |-> {calls[k].id : k \in ks}]

----------------------------------------------------------------------------
\* Vector store and the user-scoped retriever

Users == {"u1", "u2"}
NoUser == "None"
Embeddings == {1, 2}

\* search_kwargs={"k": 5}
TopK == 5

Chunks == [owner : Users, vec : Embeddings]

\* cosine distance of a chunk to the query, as a rank
distance(vec, query) == IF vec >= query THEN vec - query ELSE query - vec

\* the k nearest chunks of the candidate set S, nearest first, ties by age
RECURSIVE nearest(_, _, _, _)
nearest(st, S, query, k) ==
    IF k = 0 \/ S = {} THEN <<>>
    ELSE LET best == CHOOSE i \in S : \A j \in S :
                        \/ distance(st[i].vec, query) < distance(st[j].vec, query)
                        \/ distance(st[i].vec, query) = distance(st[j].vec, query) /\ i <= j
         IN <<best>> \o nearest(st, S \ {best}, query, k - 1)

\* retrieve(query, actor_scope, k): candidates are filtered to the chunks
\* owned by actor_scope, then ranked by similarity
retrieve(st, query, actor_scope, k) ==
    nearest(st, {i \in DOMAIN st : st[i].owner = actor_scope}, query, k)

\* a retriever configuration scoped to some other user
get_graph_for_other_user(user_id) ==
    [user_id |-> CHOOSE u \in Users : u # user_id, search_type |-> "similarity", k |-> TopK]

\* get_graph_for_user: the retriever the graph of a turn is built with
get_graph_for_user(user_id) ==
    [user_id |-> user_id, search_type |-> "similarity", k |-> TopK]

----------------------------------------------------------------------------
\* Session context store (app/models/agent_session.py)

SessionIds == {"s1", "s2"}
\* the actors a session is initialised for
Employees ==
    {[employee_id |-> 335, employee_name |-> "Neha"],
     [employee_id |-> 336, employee_name |-> "John"]}

\* ttl_hours arguments, in units of 24 hours
TTLs == {0, 1}

\* ttl_hours=24, the lifetime the endpoints pass
DefaultTtl == 1

\* an optional value: <<>> is None
None == <<>>
Some(v) == <<v>>

\* AgentSession.is_expired at time t
is_expired(row, t) ==
    IF row.expires_at = None THEN FALSE ELSE t > row.expires_at[1]

\* a query without the filter on session_id
query_unfiltered(tbl, session_id) == IF tbl # <<>> THEN 1 ELSE 0

\* db.query(AgentSession).filter(session_id == ...).first(): the index of the
\* first matching row, 0 when there is none
query_first(tbl, session_id) ==
    IF \E i \in DOMAIN tbl : tbl[i].session_id = session_id
    THEN CHOOSE i \in DOMAIN tbl :
            /\ tbl[i].session_id = session_id
            /\ \A j \in DOMAIN tbl : tbl[j].session_id = session_id => i <= j
    ELSE 0

\* db.delete(row); db.commit()
db_delete(tbl, i) == SubSeq(tbl, 1, i - 1) \o SubSeq(tbl, i + 1, Len(tbl))

\* a create_session that always inserts a new row
create_session_insert(tbl, t, session_id, employee_id, employee_name, ttl_hours) ==
    Append(tbl, [session_id |-> session_id, employee_id |-> employee_id,
                 employee_name |-> employee_name,
                 expires_at |-> IF ttl_hours > 0 THEN Some(t + ttl_hours) ELSE None])

\* create_session at time t: the table afterwards
create_session(tbl, t, session_id, employee_id, employee_name, ttl_hours) ==
    LET expires_at == IF ttl_hours > 0 THEN Some(t + ttl_hours) ELSE None
        existing == query_first(tbl, session_id)
    IN IF existing # 0
       THEN [tbl EXCEPT ![existing].employee_id = employee_id,
                        ![existing].employee_name = employee_name,
                        ![existing].expires_at = expires_at]
       ELSE Append(tbl, [session_id |-> session_id, employee_id |-> employee_id,
                         employee_name |-> employee_name, expires_at |-> expires_at])

\* a get_session that leaves an expired row in the table
get_session_keep(tbl, t, session_id) ==
    LET session == query_first(tbl, session_id)
    IN IF session = 0 \/ is_expired(tbl[session], t) THEN [table |-> tbl, value |-> None]
       ELSE [table |-> tbl,
             value |-> Some([session_id |-> tbl[session].session_id,
                             employee_id |-> tbl[session].employee_id,
                             employee_name |-> tbl[session].employee_name])]

\* get_session at time t: the table afterwards and the returned context
get_session(tbl, t, session_id) ==
    LET session == query_first(tbl, session_id)
    IN IF session = 0 THEN [table |-> tbl, value |-> None]
       ELSE IF is_expired(tbl[session], t)
       THEN [table |-> db_delete(tbl, session), value |-> None]
       ELSE [table |-> tbl,
             value |-> Some([session_id |-> tbl[session].session_id,
                             employee_id |-> tbl[session].employee_id,
                             employee_name |-> tbl[session].employee_name])]

\* a refresh_session that extends every row it finds
refresh_session_any(tbl, t, session_id, ttl_hours) ==
    LET session == query_first(tbl, session_id)
    IN IF session = 0 THEN [table |-> tbl, value |-> FALSE]
       ELSE [table |-> [tbl EXCEPT ![session].expires_at = Some(t + ttl_hours)],
             value |-> TRUE]

\* refresh_session at time t
refresh_session(tbl, t, session_id, ttl_hours) ==
    LET session == query_first(tbl, session_id)
    IN IF session = 0 THEN [table |-> tbl, value |-> FALSE]
       ELSE IF is_expired(tbl[session], t) THEN [table |-> tbl, value |-> FALSE]
       ELSE [table |-> [tbl EXCEPT ![session].expires_at = Some(t + ttl_hours)],
             value |-> TRUE]

\* a delete_session that reports success for every session_id
delete_session_always(tbl, session_id) ==
    LET session == query_first(tbl, session_id)
    IN IF session = 0 THEN [table |-> tbl, value |-> TRUE]
       ELSE [table |-> db_delete(tbl, session), value |-> TRUE]

\* delete_session
delete_session(tbl, session_id) ==
    LET session == query_first(tbl, session_id)
    IN IF session = 0 THEN [table |-> tbl, value |-> FALSE]
       ELSE [table |-> db_delete(tbl, session), value |-> TRUE]

\* endpoints GET and DELETE /agent/session/{session_id}: the HTTP status
get_session_status(context) == IF context = None THEN 404 ELSE 200
delete_session_status(deleted) == IF ~deleted THEN 404 ELSE 200

NoOp ==
    [op |-> "none", session_id |-> "", employee_id |-> 0, employee_name |-> "",
     ttl_hours |-> 0, value |-> None, status |-> 0, prev |-> <<>>, known |-> None,
     actor |-> 0]

InitSess ==
    /\ sessions = <<>>
    /\ now = 0
    /\ sret = NoOp
    /\ lastInit = [s \in SessionIds |-> None]

----------------------------------------------------------------------------
\* The actor context (app/workflows/context.py) under concurrent turns

\* the turns in flight at the same time, one task each
Turns == {"t1", "t2"}

\* the contexts that hold a value of the context variable
Contexts == Turns \cup {"module"}

\* employee_id argument of stream_chat / stream_resume: Optional[int]
EmployeeIds == {None} \cup {Some(e.employee_id) : e \in Employees}

\* a clear that leaves the value in place
clear_context_keep(c, task) == c

\* a module-level variable: one value read and written by every task
context_shared(task) == "module"

\* _employee_id_context is a ContextVar: a task reads and writes its own value
context_of(task) == task

set_employee_id(c, task, employee_id) == [c EXCEPT ![context_of(task)] = employee_id]

get_employee_id(c, task) == c[context_of(task)]

clear_context(c, task) == [c EXCEPT ![context_of(task)] = None]

\* DEFAULT_EMPLOYEE_ID of the HR tools
DEFAULT_EMPLOYEE_ID == 335

\* stream_chat / stream_resume: the context after the employee context is set
turn_context(c, task, employee_id) ==
    IF employee_id # None THEN set_employee_id(c, task, employee_id)
    ELSE clear_context(c, task)

\* a tool that acts for the default employee whatever the context holds
employee_of_call_default(c, task, employee_id) ==
    IF employee_id # None THEN employee_id[1] ELSE DEFAULT_EMPLOYEE_ID

\* the HR tools: the employee a call acts for, given its employee_id argument
employee_of_call(c, task, employee_id) ==
    IF employee_id # None THEN employee_id[1]
    ELSE IF get_employee_id(c, task) = None THEN DEFAULT_EMPLOYEE_ID
    ELSE get_employee_id(c, task)[1]

InitCtx ==
    /\ ctx = [k \in Contexts |-> None]
    /\ pc = [t \in Turns |-> "new"]
    /\ seen = [t \in Turns |-> {}]
    /\ earlier = [t \in Turns |-> {}]

----------------------------------------------------------------------------
\* The checkpointer and the thread ids (app/services/chat_service.py)

ThreadIds == {"A", "B", "C"}

\* thread_id values that are empty or whitespace only
Blanks == {"", " "}

ThreadKeys == ThreadIds \cup Blanks

\* request.thread_id of POST /chat: Optional[str]
RequestThreadIds == {None} \cup {Some(t) : t \in ThreadKeys}

\* str(uuid.uuid4()): an id no turn has used
uuid4(used) == ThreadIds \ used

\* an endpoint that generates an id only when none is given
chat_thread_id_if_none(thread_id, generated) ==
    IF thread_id = None THEN generated ELSE thread_id[1]

\* chat: the thread_id of the turn; generated is the uuid it would generate
chat_thread_id(thread_id, generated) ==
    IF thread_id = None \/ thread_id[1] \in Blanks THEN generated ELSE thread_id[1]

\* stream_chat: the thread_id of the run
stream_thread_id(thread_id, generated) ==
    IF thread_id = None THEN generated ELSE thread_id[1]

\* stream_chat: the thread_id field of an event the run yields
event_thread_id(thread_id) == thread_id

MaxThreadTurns == 2

\* a config that names the same thread for every run
config_one_thread(thread_id) == "A"

\* config["configurable"]["thread_id"]: the key of the run's checkpoint
config_thread_id(thread_id) == thread_id

\* the graph run begins: the stored messages of the thread plus the input
graph_input(cp, thread_id, input_messages) ==
    [cp EXCEPT ![config_thread_id(thread_id)] = @ \o input_messages]

NoStart == [op |-> "none", given |-> None, thread_id |-> "", known |-> {}]

InitThreads ==
    /\ checkpoints = [t \in ThreadKeys |-> <<>>]
    /\ known = {}
    /\ inTurn = [t \in ThreadKeys |-> FALSE]
    /\ thrTurns = [t \in ThreadKeys |-> 0]
    /\ solo = [t \in ThreadKeys |-> <<>>]
    /\ tstart = NoStart
    /\ tevents = [t \in ThreadKeys |-> {}]

----------------------------------------------------------------------------
\* The HR action tools (app/workflows/tools/leave_apply.py, attendance_apply.py)

\* date arguments: in the ISO form, in another accepted form, not a date
Dates == {"2024-12-01", "December 1", "tomorrow"}

\* result of _get_hrms_token: a bearer token, or None when the login failed
Tokens == {None, Some("token")}

\* the HRMS requests of an invocation: all answered, or one fails in transit
Networks == {"ok", "timeout"}

\* the employee's phone and address lookups: found, or not found
Lookups == {"found", "missing"}

\* status code and body of the response to the submission
StatusCodes == {200, 500}
Bodies == {"status_true", "status_false", "malformed"}

\* outcome of an invocation: a returned value (None or a text) or an exception
Returns(v) == [raised |-> FALSE, value |-> v]
Raises == [raised |-> TRUE, value |-> None]

\* datetime.strptime(s, "%Y-%m-%d") succeeds
is_iso_date(s) == s = "2024-12-01"

\* _format_datetime: the ISO form of a date in an accepted form, any other
\* string unchanged
format_datetime(date_str) ==
    IF date_str \in {"2024-12-01", "December 1"} THEN "2024-12-01" ELSE date_str

\* _format_attendance_date: likewise, with the time of day appended
format_attendance_date(date_str) ==
    IF date_str \in {"2024-12-01", "December 1"} THEN "2024-12-01T00:00:00.000Z"
    ELSE date_str

\* apply_for_leave
apply_for_leave(start_date, token, network, lookup, status_code, body) ==
    LET from_date == format_datetime(start_date)
    IN IF ~is_iso_date(from_date) THEN Raises
       ELSE IF token = None THEN Returns(Some("Failed to authenticate with HRMS system."))
       ELSE IF network # "ok" THEN Returns(Some("Error during leave application"))
       ELSE IF lookup # "found" THEN Returns(Some("Failed to fetch mobile number or address"))
       ELSE IF status_code = 200
            THEN IF body = "malformed" THEN Returns(Some("Error during leave application"))
                 ELSE IF body = "status_true"
                      THEN Returns(Some("Leave application submitted successfully!"))
                      ELSE Returns(None)
            ELSE Returns(Some("HTTP error"))

\* apply_for_manual_attendance
apply_for_manual_attendance(attendance_date, token, network, status_code, body) ==
    LET formatted_date == format_attendance_date(attendance_date)
    IN IF token = None THEN Returns(Some("Failed to authenticate with HRMS system."))
       ELSE IF network # "ok" THEN Returns(Some("Error during manual attendance application"))
       ELSE IF status_code = 200
            THEN IF body = "malformed" THEN Returns(Some("Error parsing response"))
                 ELSE IF body = "status_true"
                      THEN Returns(Some("Manual attendance application submitted successfully!"))
                      ELSE Returns(Some("Manual attendance application failed."))
            ELSE Returns(Some("HTTP error"))

----------------------------------------------------------------------------
\* The admin tools and their employee search (leave_cancel_admin.py,
\* leave_apply_admin.py)

\* employees of the HRMS; a name is a sequence of words
Staff ==
    {[employeeId |-> 101, employeeName |-> <<"neha", "muquid">>],
     [employeeId |-> 102, employeeName |-> <<"neha", "khan">>],
     [employeeId |-> 103, employeeName |-> <<"john">>]}

\* employee_name arguments
NameQueries == {<<"neha">>, <<"neha", "muquid">>, <<"john">>, <<"jane">>}

\* Python's a in b on strings: a occurs in b
occurs_in(a, b) ==
    \E i \in 0..(Len(b) - Len(a)) : SubSeq(b, i + 1, i + Len(a)) = a

\* _search_employee_by_name: the employees whose name matches
matches(employees, employee_name) ==
    {emp \in employees : \/ occurs_in(employee_name, emp.employeeName)
                         \/ occurs_in(emp.employeeName, employee_name)}

MultipleText == "Multiple employees found. Please provide a more specific name."

\* a search that takes one of several matching employees
search_employee_first_match(response_ok, employees, employee_name) ==
    IF ~response_ok THEN [kind |-> "none"]
    ELSE LET m == matches(employees, employee_name)
         IN IF Cardinality(m) = 0 THEN [kind |-> "none"]
            ELSE [kind |-> "found", employee |-> CHOOSE emp \in m : TRUE]

\* _search_employee_by_name: None, a dict with "error", or the employee
search_employee_by_name(response_ok, employees, employee_name) ==
    IF ~response_ok THEN [kind |-> "none"]
    ELSE LET m == matches(employees, employee_name)
         IN IF Cardinality(m) = 0 THEN [kind |-> "none"]
            ELSE IF Cardinality(m) > 1 THEN [kind |-> "error", error |-> MultipleText]
            ELSE [kind |-> "found", employee |-> CHOOSE emp \in m : TRUE]

\* result of an admin tool: the returned text and the write calls it made
AdminResult(text, writes) == [raised |-> FALSE, value |-> Some(text), writes |-> writes]

\* cancel_leave_for_employee; leave_request tells whether a leave request of
\* the employee matches the date, write_ok whether the HRMS accepts the write
cancel_leave_for_employee(token, response_ok, employees, employee_name, applied_date, leave_request, write_ok) ==
    IF token = None THEN AdminResult("Failed to authenticate with HRMS system.", <<>>)
    ELSE LET emp_result == search_employee_by_name(response_ok, employees, employee_name)
         IN IF emp_result.kind = "none" THEN AdminResult("No employee found", <<>>)
            ELSE IF emp_result.kind = "error" THEN AdminResult(emp_result.error, <<>>)
            ELSE IF ~is_iso_date(format_datetime(applied_date))
                 THEN AdminResult("Invalid date format", <<>>)
            ELSE IF ~leave_request THEN AdminResult("No leave request found", <<>>)
            ELSE LET write == [call |-> "CancelLeaveRequest",
                               employeeId |-> emp_result.employee.employeeId]
                 IN IF write_ok THEN AdminResult("Leave request cancelled", <<write>>)
                    ELSE AdminResult("Failed to cancel leave request", <<write>>)

\* apply_leave_for_employee, with no confirmation asked; employee_data tells
\* whether the reads of the workflow succeed
apply_leave_for_employee(token, response_ok, employees, employee_name, start_date, employee_data, write_ok) ==
    IF token = None THEN AdminResult("Failed to authenticate with HRMS system.", <<>>)
    ELSE LET emp_result == search_employee_by_name(response_ok, employees, employee_name)
         IN IF emp_result.kind = "none" THEN AdminResult("No employee found", <<>>)
            ELSE IF emp_result.kind = "error" THEN AdminResult(emp_result.error, <<>>)
            ELSE IF ~is_iso_date(format_datetime(start_date))
                 THEN AdminResult("Invalid date format", <<>>)
            ELSE IF ~employee_data THEN AdminResult("Failed to fetch employee data", <<>>)
            ELSE LET write == [call |-> "SaveEmployeeLeaveRequest",
                               employeeId |-> emp_result.employee.employeeId]
                 IN IF write_ok THEN AdminResult("Leave applied", <<write>>)
                    ELSE AdminResult("Leave application failed", <<write>>)

----------------------------------------------------------------------------
\* Tool lookup of the MCP endpoint (app/api/v1/endpoints/mcp.py)

Servers == {"a", "b"}

MaxTools == 3

\* a tool name "server:tool" is [server, tool]; a name without ":" has the
\* server ""
Qualified(server, tool) == [server |-> server, tool |-> tool]
Unqualified(tool) == [server |-> "", tool |-> tool]

\* names the tool sources may expose: one tool name exposed by both sources,
\* one exposed by a single source, one exposed without a prefix
ExposedNames ==
    {Qualified("a", "search"), Qualified("b", "search"), Qualified("a", "leave"),
     Unqualified("balance")}

\* the merged tool lists get_mcp_tools may return
Registries ==
    {r \in UNION {[1..n -> ExposedNames] : n \in 0..MaxTools} :
        \A i, j \in DOMAIN r : i # j => r[i] # r[j]}

\* request.tool_name and request.server_name of POST /tools/call
RequestNames == ExposedNames \cup {Unqualified("search"), Unqualified("leave")}
RequestServers == {None} \cup {Some(sv) : sv \in Servers}

\* call_tool: the loop that finds the tool, from position i on; 0 when no
\* tool is found
RECURSIVE find_tool(_, _, _, _)
find_tool(tools, i, tool_name, server_name) ==
    IF i > Len(tools) THEN 0
    ELSE IF tools[i] = tool_name THEN i
    ELSE IF tools[i].server # "" /\ Unqualified(tools[i].tool) = tool_name THEN i
    ELSE find_tool(tools, i + 1, tool_name, server_name)

\* what an invocation of a tool does: it returns, it raises before the tool
\* has acted, or it raises after the tool has acted
Invocations == {"returns", "raises_before", "raises_after"}

\* the side effects an invocation of the tool performs
effects_of(invocation) == IF invocation = "raises_before" THEN 0 ELSE 1

\* call_tool, the execution of the target: ainvoke, and invoke when ainvoke
\* raised; the number of times the tool has acted and the HTTP status
execute_tool(ainvoke, invoke) ==
    IF ainvoke = "returns" THEN [effects |-> 1, status |-> 200]
    ELSE [effects |-> effects_of(ainvoke) + effects_of(invoke),
          status |-> IF invoke = "returns" THEN 200 ELSE 500]

\* call_tool: the tool invoked, the times it has acted and the HTTP status
call_tool(tools, tool_name, server_name, ainvoke, invoke) ==
    LET i == find_tool(tools, 1, tool_name, server_name)
    IN IF i = 0 THEN [target |-> None, effects |-> 0, status |-> 404]
       ELSE [target |-> Some(tools[i]), effects |-> execute_tool(ainvoke, invoke).effects,
             status |-> execute_tool(ainvoke, invoke).status]

NoCall ==
    [tool |-> "none", date |-> "", token |-> None, network |-> "", lookup |-> "",
     status_code |-> 0, body |-> "", outcome |-> Returns(None)]

InitTools == tret = NoCall

----------------------------------------------------------------------------
\* Thread memory (app/api/v1/endpoints/memory.py)

MemThreads == {"A", "B"}

MaxRows == 2

CheckpointTables == {"checkpoints", "checkpoint_writes", "checkpoint_blobs"}

\* DELETE FROM table WHERE thread_id = %s
delete_where(rows, thread_id) == {r \in rows : r.thread_id # thread_id}

\* SELECT COUNT(*) FROM table WHERE thread_id = %s
count_where(rows, thread_id) == Cardinality({r \in rows : r.thread_id = thread_id})

\* a memory clear that touches the checkpoint tables only for threads that
\* have a ChatThread record
delete_thread_memory_known(t, thread_id) ==
    IF count_where(t.chat_threads, thread_id) = 0 THEN t
    ELSE [name \in DOMAIN t |-> delete_where(t[name], thread_id)]

\* delete_thread_memory: the tables afterwards
delete_thread_memory(t, thread_id) ==
    [name \in DOMAIN t |-> delete_where(t[name], thread_id)]

\* the authenticated users
MemUsers == {1, 2}

\* the user whose chat created the thread (ChatThread.user_id)
thread_owner(thread_id) == IF thread_id = "A" THEN 1 ELSE 2

\* get_user_thread_ids
get_user_thread_ids(t, user_id) ==
    {r.thread_id : r \in {x \in t.chat_threads : x.user_id = user_id}}

\* delete_all_memory: the tables afterwards
delete_all_memory(t, user_id) ==
    [name \in DOMAIN t |->
        IF name \in CheckpointTables
        THEN {r \in t[name] : r.thread_id \notin get_user_thread_ids(t, user_id)}
        ELSE t[name]]

NoMemOp == [op |-> "none", thread_id |-> "", user |-> 0, prev |-> <<>>, status |-> 0]

InitMem ==
    /\ tables = [checkpoints |-> {}, checkpoint_writes |-> {}, checkpoint_blobs |-> {},
                 chat_messages |-> {}, chat_threads |-> {}]
    /\ mret = NoMemOp

InitAux ==
    /\ InitSess
    /\ InitMem
    /\ InitTools
    /\ InitCtx
    /\ supplied = [t \in Turns |-> None]
    /\ InitThreads

----------------------------------------------------------------------------
\* The thread and its runs

Init ==
    /\ policy \in Policies
    /\ messages = <<>>
    /\ node = "none"
    /\ running = FALSE
    /\ mode = "none"
    /\ pending = NoInterrupt
    /\ resumeVal = "none"
    /\ decision = "none"
    /\ events = <<>>
    /\ full_content = <<>>
    /\ is_using_tools = FALSE
    /\ http = <<>>
    /\ executed = <<>>
    /\ approved = {}
    /\ consumed = FALSE
    /\ nextId = 1
    /\ startLen = 0
    /\ turns = 0
    /\ resumes = 0
    /\ rewrites = 0
    /\ steps = 0
    /\ gradings = 0
    /\ sensitiveCalls = {}
    /\ cleaned = <<>>
    /\ store = <<>>
    /\ results = <<>>
    /\ actor = NoUser
    /\ InitAux

\* stream_chat: a caller message starts a run at the graph's entry; a pending
\* interrupt of the thread is dropped by the new input
StartChat ==
    /\ ~running /\ turns < MaxTurns
    /\ turns' = turns + 1
    /\ mode' = "chat"
    /\ running' = TRUE
    /\ messages' = Append(messages, HumanMessage(UserText))
    /\ startLen' = Len(messages)
    /\ node' = EntryNode
    /\ pending' = NoInterrupt
    /\ resumeVal' = "none"
    /\ decision' = "none"
    /\ consumed' = FALSE
    /\ Yielded(NewStream, "chat", <<>>, 0)
    /\ rewrites' = 0 /\ steps' = 0 /\ gradings' = 0 /\ sensitiveCalls' = {}
    /\ UNCHANGED <<policy, executed, approved, nextId, resumes, cleaned, retrVars, auxVars>>

\* stream_chat: get_checkpointer / get_graph_for_user raises before the graph runs
ChatSetupRaises ==
    /\ ~running
    /\ mode' = "chat"
    /\ startLen' = Len(messages)
    /\ decision' = "none"
    /\ consumed' = FALSE
    /\ Yielded(yield_error(NewStream), "chat", <<>>, 0)
    /\ steps' = 0
    /\ UNCHANGED <<policy, messages, node, running, pending, resumeVal, executed,
                   approved, nextId, turns, resumes, rewrites, gradings, sensitiveCalls, cleaned,
                   retrVars, auxVars>>

\* stream_resume on a thread_id that has no checkpoint: the graph has nothing
\* to resume and no input, and the run raises
ResumeNoThread(d) ==
    /\ ~running /\ node = "none"
    /\ mode' = "resume"
    /\ decision' = d
    /\ consumed' = FALSE
    /\ startLen' = Len(messages)
    /\ Yielded(yield_error(NewStream), "resume", <<>>, 0)
    /\ steps' = 0
    /\ UNCHANGED <<policy, messages, node, running, pending, resumeVal, executed,
                   approved, nextId, turns, resumes, rewrites, gradings, sensitiveCalls, cleaned,
                   retrVars, auxVars>>

\* stream_resume on a thread whose graph reached END: Command(resume=...) finds
\* no task to run, the event loop ends and completion is yielded
ResumeFinished(d) ==
    /\ ~running /\ node = END
    /\ mode' = "resume"
    /\ decision' = d
    /\ consumed' = FALSE
    /\ startLen' = Len(messages)
    /\ Yielded(yield_done(NewStream), "resume", <<>>, 0)
    /\ steps' = 0
    /\ UNCHANGED <<policy, messages, node, running, pending, resumeVal, executed,
                   approved, nextId, turns, resumes, rewrites, gradings, sensitiveCalls, cleaned,
                   retrVars, auxVars>>

\* stream_resume on a thread whose checkpoint has a node to run (suspended by
\* an interrupt, or stopped by an exception): the graph re-enters that node
\* with the decision as the value interrupt() returns
ResumeAtNode(d) ==
    /\ ~running /\ node \notin {"none", END}
    /\ resumes < MaxResumes
    /\ resumes' = resumes + 1
    /\ mode' = "resume"
    /\ running' = TRUE
    /\ decision' = d
    /\ resumeVal' = d
    /\ consumed' = (pending # NoInterrupt)
    /\ approved' = IF d = "approve" THEN approved \cup pending.ids ELSE approved
    /\ pending' = NoInterrupt
    /\ startLen' = Len(messages)
    /\ Yielded(NewStream, "resume", <<>>, 0)
    /\ steps' = 0
    /\ UNCHANGED <<policy, messages, node, executed, nextId, turns, rewrites, gradings,
                   sensitiveCalls, cleaned, retrVars, auxVars>>

\* stream_resume: get_checkpointer / get_graph_for_user raises
ResumeSetupRaises ==
    /\ ~running
    /\ mode' = "resume"
    /\ decision' = "none"
    /\ consumed' = FALSE
    /\ startLen' = Len(messages)
    /\ Yielded(yield_error(NewStream), "resume", <<>>, 0)
    /\ steps' = 0
    /\ UNCHANGED <<policy, messages, node, running, pending, resumeVal, executed,
                   approved, nextId, turns, resumes, rewrites, gradings, sensitiveCalls, cleaned,
                   retrVars, auxVars>>

\* node generate_query_or_respond, then the tools_condition edge
Decide ==
    /\ running /\ node = "generate_query_or_respond"
    /\ \E names \in CallChoices : \E c \in ResponseTexts(names) :
        /\ nextId + Len(names) - 1 <= MaxCallIds
        /\ LET response == AIMessage(c, WithIds(names, nextId))
               goto == tools_condition(response)
               o == consume(Stream, NodeEvents(node, c), InterruptKinds(mode))
           IN /\ messages' = Append(messages, response)
              /\ node' = goto
              /\ running' = (goto # END)
              /\ Yielded(IF goto = END THEN yield_done(o) ELSE o, mode, http, Len(events))
        /\ nextId' = nextId + Len(names)
        /\ sensitiveCalls' = sensitiveCalls \cup
              {nextId + k - 1 : k \in {j \in DOMAIN names : names[j] \in SENSITIVE_TOOLS}}
    /\ cleaned' = cleaned_messages(messages)
    /\ steps' = steps + 1
    /\ UNCHANGED <<policy, mode, pending, resumeVal, decision, executed, approved,
                   consumed, startLen, turns, resumes, rewrites, gradings, retrVars, auxVars>>

\* node tools: a tool reaches interrupt(); the other tools of the step run to
\* completion, no tool message is written and the thread is suspended; the
\* event stream of the graph ends after the event that carries the interrupt
ToolsSuspend ==
    /\ running /\ node = "tools"
    /\ LET calls == Last(messages).calls IN
       LET ks == interrupting(policy, calls, resumeVal)
           d == confirmation_request(calls, ks)
           o == consume(Stream, <<ChainStart("tools"), ChainEnd("tools", d)>>,
                        InterruptKinds(mode))
       IN /\ ks # {}
          /\ executed' = executed \o performed(policy, calls, resumeVal, 1)
          /\ pending' = d
          /\ Yielded(yield_done(o), mode, http, Len(events))
    /\ running' = FALSE
    /\ steps' = steps + 1
    /\ UNCHANGED <<policy, messages, node, mode, resumeVal, decision, approved, consumed,
                   nextId, startLen, turns, resumes, rewrites, gradings, sensitiveCalls, cleaned,
                   retrVars, auxVars>>

\* node tools: every call returns a text, then the route_after_tools edge
ToolsComplete ==
    /\ running /\ node = "tools"
    /\ LET calls == Last(messages).calls IN
       \E docs \in DocsFound(calls), score \in {"yes", "no"} :
          LET msgs == messages \o tool_messages(policy, calls, docs, resumeVal)
              o == consume(Stream, NodeEvents("tools", <<>>), InterruptKinds(mode))
          IN /\ interrupting(policy, calls, resumeVal) = {}
             /\ score = "no" => asks_grader(msgs)
             /\ executed' = executed \o performed(policy, calls, resumeVal, 1)
             /\ messages' = msgs
             /\ node' = route_after_tools(msgs, score)
             /\ gradings' = IF grades(msgs) THEN gradings + 1 ELSE gradings
             /\ Yielded(o, mode, http, Len(events))
    /\ resumeVal' = "none"
    /\ steps' = steps + 1
    /\ UNCHANGED <<policy, running, mode, pending, decision, approved, consumed, nextId,
                   startLen, turns, resumes, rewrites, sensitiveCalls, cleaned, retrVars, auxVars>>

\* node tools: the tools ran, then the grader model raises inside the
\* route_after_tools edge; the step fails and its tool messages are not stored
ToolsGraderRaises ==
    /\ running /\ node = "tools"
    /\ LET calls == Last(messages).calls IN
       \E docs \in DocsFound(calls) :
          LET msgs == messages \o tool_messages(policy, calls, docs, resumeVal)
              o == on_event(Stream, ChainStart("tools"), InterruptKinds(mode))
          IN /\ interrupting(policy, calls, resumeVal) = {}
             /\ asks_grader(msgs)
             /\ executed' = executed \o performed(policy, calls, resumeVal, 1)
             /\ Yielded(yield_error(o), mode, http, Len(events))
    /\ running' = FALSE
    /\ resumeVal' = "none"
    /\ steps' = steps + 1
    /\ UNCHANGED <<policy, messages, node, mode, pending, decision, approved, consumed,
                   nextId, startLen, turns, resumes, rewrites, gradings, sensitiveCalls, cleaned,
                   retrVars, auxVars>>

\* node rewrite_question, then the edge back to generate_query_or_respond
Rewrite ==
    /\ running /\ node = "rewrite_question"
    /\ messages' = Append(messages, HumanMessage(RewriteText))
    /\ node' = "generate_query_or_respond"
    /\ rewrites' = rewrites + 1
    /\ Yielded(consume(Stream, NodeEvents(node, RewriteText), InterruptKinds(mode)),
               mode, http, Len(events))
    /\ steps' = steps + 1
    /\ UNCHANGED <<policy, running, mode, pending, resumeVal, decision, executed, approved,
                   consumed, nextId, startLen, turns, resumes, gradings, sensitiveCalls, cleaned,
                   retrVars, auxVars>>

\* node generate_answer, then the edge to END and the completion event
Answer ==
    /\ running /\ node = "generate_answer"
    /\ \E c \in ModelTexts :
          LET g == generate_answer(messages, c)
              streamed == IF g.invoked = 0 THEN <<>> ELSE c
              o == consume(Stream, NodeEvents(node, streamed), InterruptKinds(mode))
          IN /\ messages' = messages \o g.messages
             /\ Yielded(yield_done(o), mode, http, Len(events))
    /\ node' = generate_answer(messages, <<>>).next
    /\ running' = FALSE
    /\ steps' = steps + 1
    /\ UNCHANGED <<policy, mode, pending, resumeVal, decision, executed, approved, consumed,
                   nextId, startLen, turns, resumes, rewrites, gradings, sensitiveCalls, cleaned,
                   retrVars, auxVars>>

\* a model call of the node raises: the exception leaves the graph and is
\* caught at the top of the run; the checkpoint stays at the node
ModelRaises ==
    /\ running
    /\ node \in {"generate_query_or_respond", "rewrite_question", "generate_answer"}
    /\ node = "generate_answer" => generate_answer(messages, <<>>).invoked = 1
    /\ Yielded(yield_error(on_event(Stream, ChainStart(node), InterruptKinds(mode))),
               mode, http, Len(events))
    /\ running' = FALSE
    /\ steps' = steps + 1
    /\ UNCHANGED <<policy, messages, node, mode, pending, resumeVal, decision, executed,
                   approved, consumed, nextId, startLen, turns, resumes, rewrites, gradings,
                   sensitiveCalls, cleaned, retrVars, auxVars>>

Next ==
    \/ StartChat
    \/ ChatSetupRaises
    \/ \E d \in Decisions : ResumeNoThread(d)
    \/ \E d \in Decisions : ResumeFinished(d)
    \/ \E d \in Decisions : ResumeAtNode(d)
    \/ ResumeSetupRaises
    \/ Decide
    \/ ToolsSuspend
    \/ ToolsComplete
    \/ ToolsGraderRaises
    \/ Rewrite
    \/ Answer
    \/ ModelRaises

Spec == Init /\ [][Next]_vars

----------------------------------------------------------------------------
\* A turn on a thread whose checkpoint was written elsewhere

\* the ascending sequence of the ids in S
IdSeq(S) ==
    CHOOSE q \in [1..Cardinality(S) -> S] : \A i, j \in 1..Cardinality(S) : i < j => q[i] < q[j]

\* call ids of the stored messages
SeedIds == {1, 2}

\* tool calls of a stored assistant message: some ids, or the same followed by
\* a call whose id is None, or a single call whose id is None
SeedCalls ==
    LET withIds == {[k \in DOMAIN IdSeq(S) |-> [id |-> IdSeq(S)[k], name |-> RetrieverName]] :
                        S \in (SUBSET SeedIds) \ {{}}}
        noId == [id |-> 0, name |-> RetrieverName]
    IN withIds \cup {Append(c, noId) : c \in withIds} \cup {<<noId>>}

SeedMessages ==
    {HumanMessage(UserText), AIMessage(<<"a">>, <<>>)}
    \cup {AIMessage(<<>>, c) : c \in SeedCalls}
    \cup {ToolMessage(DocsText, id, RetrieverName) : id \in SeedIds}

Checkpoints == UNION {[1..n -> SeedMessages] : n \in 0..MaxSeedLen}

InitClean ==
    /\ policy = [enabled |-> FALSE, use_node_level_gate |-> FALSE, require_approval_for |-> {}]
    /\ messages \in Checkpoints
    /\ node = END
    /\ running = FALSE
    /\ mode = "none"
    /\ pending = NoInterrupt
    /\ resumeVal = "none"
    /\ decision = "none"
    /\ events = <<>>
    /\ full_content = <<>>
    /\ is_using_tools = FALSE
    /\ http = <<>>
    /\ executed = <<>>
    /\ approved = {}
    /\ consumed = FALSE
    /\ nextId = MaxCallIds + 1
    /\ startLen = Len(messages)
    /\ turns = 0
    /\ resumes = 0
    /\ rewrites = 0
    /\ steps = 0
    /\ gradings = 0
    /\ sensitiveCalls = {}
    /\ cleaned = <<>>
    /\ store = <<>>
    /\ results = <<>>
    /\ actor = NoUser
    /\ InitAux

NextClean ==
    \/ StartChat
    \/ Decide
    \/ ModelRaises

SpecClean == InitClean /\ [][NextClean]_vars

----------------------------------------------------------------------------
\* Retrieval by the turns of several users over one vector store

Stores == UNION {[1..n -> Chunks] : n \in 0..MaxChunks}

InitRetr ==
    /\ policy = [enabled |-> FALSE, use_node_level_gate |-> FALSE, require_approval_for |-> {}]
    /\ messages = <<>>
    /\ node = "none"
    /\ running = FALSE
    /\ mode = "none"
    /\ pending = NoInterrupt
    /\ resumeVal = "none"
    /\ decision = "none"
    /\ events = <<>>
    /\ full_content = <<>>
    /\ is_using_tools = FALSE
    /\ http = <<>>
    /\ executed = <<>>
    /\ approved = {}
    /\ consumed = FALSE
    /\ nextId = 1
    /\ startLen = 0
    /\ turns = 0
    /\ resumes = 0
    /\ rewrites = 0
    /\ steps = 0
    /\ gradings = 0
    /\ sensitiveCalls = {}
    /\ cleaned = <<>>
    /\ store \in Stores
    /\ results = <<>>
    /\ actor = NoUser
    /\ InitAux

\* the retriever tool of a turn of user_id answers a query
Retrieve(user_id, query) ==
    /\ actor' = user_id
    /\ LET retriever == get_graph_for_user(user_id)
       IN results' = retrieve(store, query, retriever.user_id, retriever.k)
    /\ UNCHANGED <<store, machineVars, auxVars>>

NextRetr == \E user_id \in Users, query \in Embeddings : Retrieve(user_id, query)

SpecRetr == InitRetr /\ [][NextRetr]_vars

----------------------------------------------------------------------------
\* The session endpoints and the session lookup of the chat endpoint

InitOther ==
    /\ policy = [enabled |-> FALSE, use_node_level_gate |-> FALSE, require_approval_for |-> {}]
    /\ messages = <<>>
    /\ node = "none"
    /\ running = FALSE
    /\ mode = "none"
    /\ pending = NoInterrupt
    /\ resumeVal = "none"
    /\ decision = "none"
    /\ events = <<>>
    /\ full_content = <<>>
    /\ is_using_tools = FALSE
    /\ http = <<>>
    /\ executed = <<>>
    /\ approved = {}
    /\ consumed = FALSE
    /\ nextId = 1
    /\ startLen = 0
    /\ turns = 0
    /\ resumes = 0
    /\ rewrites = 0
    /\ steps = 0
    /\ gradings = 0
    /\ sensitiveCalls = {}
    /\ cleaned = <<>>
    /\ store = <<>>
    /\ results = <<>>
    /\ actor = NoUser

InitSessions == InitOther /\ InitAux

Called(op, session_id, employee_id, employee_name, ttl_hours, value, status) ==
    sret' = [op |-> op, session_id |-> session_id, employee_id |-> employee_id,
             employee_name |-> employee_name, ttl_hours |-> ttl_hours, value |-> value,
             status |-> status, prev |-> sessions, known |-> lastInit[session_id],
             actor |-> 0]

\* time passes between two requests; the sessions initialised so far are no
\* longer new
Tick ==
    /\ now < MaxTime
    /\ now' = now + 1
    /\ sret' = NoOp
    /\ lastInit' = [s \in SessionIds |->
                       IF lastInit[s] = None THEN None
                       ELSE Some([lastInit[s][1] EXCEPT !.new = FALSE])]
    /\ UNCHANGED <<sessions, notSess>>

\* create_session, which POST /agent/session-init calls with ttl_hours=24
CreateSession(session_id, employee_id, employee_name, ttl_hours) ==
    /\ sessions' = create_session(sessions, now, session_id, employee_id, employee_name,
                                  ttl_hours)
    /\ Called("create", session_id, employee_id, employee_name, ttl_hours, None, 200)
    /\ lastInit' = [lastInit EXCEPT ![session_id] =
                       Some([employee_id |-> employee_id, employee_name |-> employee_name,
                             ttl_hours |-> ttl_hours, new |-> TRUE])]
    /\ UNCHANGED <<now, notSess>>

\* GET /agent/session/{session_id}
GetSession(session_id) ==
    LET r == get_session(sessions, now, session_id)
    IN /\ sessions' = r.table
       /\ Called("get", session_id, 0, "", 0, r.value, get_session_status(r.value))
       /\ UNCHANGED <<now, lastInit, notSess>>

\* refresh_session
RefreshSession(session_id, ttl_hours) ==
    LET r == refresh_session(sessions, now, session_id, ttl_hours)
    IN /\ sessions' = r.table
       /\ Called("refresh", session_id, 0, "", ttl_hours, r.value, 200)
       /\ UNCHANGED <<now, lastInit, notSess>>

\* DELETE /agent/session/{session_id}
DeleteSession(session_id) ==
    LET r == delete_session(sessions, session_id)
    IN /\ sessions' = r.table
       /\ Called("delete", session_id, 0, "", 0, r.value, delete_session_status(r.value))
       /\ lastInit' = IF r.value THEN [lastInit EXCEPT ![session_id] = None] ELSE lastInit
       /\ UNCHANGED <<now, notSess>>

\* POST /chat with a session_id: get_session, and refresh_session when the
\* session was found
ChatSession(session_id) ==
    LET r == get_session(sessions, now, session_id)
        f == refresh_session(r.table, now, session_id, DefaultTtl)
        employee_id == IF r.value # None THEN Some(r.value[1].employee_id) ELSE None
    IN /\ sessions' = IF r.value # None THEN f.table ELSE r.table
       /\ sret' = [op |-> "chat", session_id |-> session_id, employee_id |-> 0,
                   employee_name |-> "", ttl_hours |-> DefaultTtl, value |-> r.value,
                   status |-> 200, prev |-> sessions, known |-> lastInit[session_id],
                   actor |-> employee_of_call(turn_context(ctx, "t1", employee_id),
                                              "t1", None)]
       /\ UNCHANGED <<now, lastInit, notSess>>

\* POST /chat without a session_id, and a tool call of the turn
ChatNoSession ==
    /\ sret' = [NoOp EXCEPT !.op = "chat_no_session", !.status = 200,
                            !.prev = sessions,
                            !.actor = employee_of_call(turn_context(ctx, "t1", None),
                                                       "t1", None)]
    /\ UNCHANGED <<sessions, now, lastInit, notSess>>

NextSessions ==
    \/ Tick
    \/ \E session_id \in SessionIds, e \in Employees, ttl_hours \in TTLs :
            CreateSession(session_id, e.employee_id, e.employee_name, ttl_hours)
    \/ \E session_id \in SessionIds : GetSession(session_id)
    \/ \E session_id \in SessionIds, ttl_hours \in TTLs : RefreshSession(session_id, ttl_hours)
    \/ \E session_id \in SessionIds : DeleteSession(session_id)
    \/ \E session_id \in SessionIds : ChatSession(session_id)
    \/ ChatNoSession

SpecSessions == InitSessions /\ [][NextSessions]_vars

----------------------------------------------------------------------------
\* Concurrent turns and the actor context

InitContext ==
    /\ InitOther
    /\ InitSess
    /\ InitMem
    /\ InitTools
    /\ InitThreads
    /\ InitCtx
    /\ supplied \in [Turns -> EmployeeIds]

\* stream_chat / stream_resume, first step: set or clear the employee context
TurnSet(t) ==
    /\ pc[t] = "new"
    /\ ctx' = turn_context(ctx, t, supplied[t])
    /\ pc' = [pc EXCEPT ![t] = "running"]
    /\ UNCHANGED <<supplied, seen, earlier, notCtx>>

\* a tool of the turn reads the employee context
ToolRead(t) ==
    /\ pc[t] = "running"
    /\ seen' = [seen EXCEPT ![t] = @ \cup {get_employee_id(ctx, t)}]
    /\ UNCHANGED <<ctx, supplied, pc, earlier, notCtx>>

\* stream_chat / stream_resume, finally: clear_context()
TurnClear(t) ==
    /\ pc[t] = "running"
    /\ ctx' = clear_context(ctx, t)
    /\ pc' = [pc EXCEPT ![t] = "done"]
    /\ UNCHANGED <<supplied, seen, earlier, notCtx>>

\* the next turn that runs in the context of a turn that has ended
TurnAgain(t, employee_id) ==
    /\ pc[t] = "done"
    /\ pc' = [pc EXCEPT ![t] = "new"]
    /\ earlier' = [earlier EXCEPT ![t] = @ \cup {supplied[t]}]
    /\ supplied' = [supplied EXCEPT ![t] = employee_id]
    /\ seen' = [seen EXCEPT ![t] = {}]
    /\ UNCHANGED <<ctx, notCtx>>

NextContext ==
    \/ \E t \in Turns : TurnSet(t)
    \/ \E t \in Turns : ToolRead(t)
    \/ \E t \in Turns : TurnClear(t)
    \/ \E t \in Turns, employee_id \in EmployeeIds : TurnAgain(t, employee_id)

SpecContext == InitContext /\ [][NextContext]_vars

----------------------------------------------------------------------------
\* Turns on several threads

InitThreadsSpec ==
    /\ InitOther
    /\ InitAux

\* stream_chat: the thread_id of the run (a fresh one when none is given),
\* the config, and the start of the graph run on the input message
ThreadTurnStart(given) ==
    \E generated \in (IF chat_thread_id(given, "uuid") = "uuid" THEN uuid4(known)
                       ELSE {"uuid"}) :
     LET thread_id == stream_thread_id(Some(chat_thread_id(given, generated)), "uuid") IN
      /\ ~inTurn[thread_id]
      /\ tstart' = [op |-> "start", given |-> given, thread_id |-> thread_id,
                    known |-> known]
      /\ thrTurns[thread_id] < MaxThreadTurns
      /\ checkpoints' = graph_input(checkpoints, thread_id, <<HumanMessage(<<thread_id>>)>>)
      /\ known' = known \cup {config_thread_id(thread_id)}
      /\ inTurn' = [inTurn EXCEPT ![thread_id] = TRUE]
      /\ solo' = [solo EXCEPT ![thread_id] = Append(@, HumanMessage(<<thread_id>>))]
      /\ UNCHANGED <<thrTurns, tevents, notThr>>

\* the graph run of the thread ends: the response joins the thread's checkpoint
ThreadTurnEnd(thread_id) ==
    /\ inTurn[thread_id]
    /\ \E c \in ModelTexts :
         /\ checkpoints' = graph_input(checkpoints, thread_id, <<AIMessage(c, <<>>)>>)
         /\ solo' = [solo EXCEPT ![thread_id] = Append(@, AIMessage(c, <<>>))]
    /\ inTurn' = [inTurn EXCEPT ![thread_id] = FALSE]
    /\ thrTurns' = [thrTurns EXCEPT ![thread_id] = @ + 1]
    /\ tevents' = [tevents EXCEPT ![thread_id] = @ \cup {event_thread_id(thread_id)}]
    /\ UNCHANGED <<known, tstart, notThr>>

NextThreads ==
    \/ \E given \in RequestThreadIds : ThreadTurnStart(given)
    \/ \E t \in ThreadKeys : ThreadTurnEnd(t)

SpecThreads == InitThreadsSpec /\ [][NextThreads]_vars

----------------------------------------------------------------------------
\* Invocations of the HR action tools

InitToolsSpec ==
    /\ InitOther
    /\ InitAux

\* the tools node calls apply_for_leave
InvokeLeave(start_date, token, network, lookup, status_code, body) ==
    /\ tret' = [tool |-> "apply_for_leave", date |-> start_date, token |-> token,
                network |-> network, lookup |-> lookup, status_code |-> status_code,
                body |-> body,
                outcome |-> apply_for_leave(start_date, token, network, lookup,
                                            status_code, body)]
    /\ UNCHANGED notTool

\* the tools node calls apply_for_manual_attendance
InvokeAttendance(attendance_date, token, network, status_code, body) ==
    /\ tret' = [tool |-> "apply_for_manual_attendance", date |-> attendance_date,
                token |-> token, network |-> network, lookup |-> "found",
                status_code |-> status_code, body |-> body,
                outcome |-> apply_for_manual_attendance(attendance_date, token, network,
                                                        status_code, body)]
    /\ UNCHANGED notTool

NextTools ==
    \/ \E d \in Dates, t \in Tokens, n \in Networks, l \in Lookups,
          c \in StatusCodes, b \in Bodies : InvokeLeave(d, t, n, l, c, b)
    \/ \E d \in Dates, t \in Tokens, n \in Networks,
          c \in StatusCodes, b \in Bodies : InvokeAttendance(d, t, n, c, b)

SpecTools == InitToolsSpec /\ [][NextTools]_vars

----------------------------------------------------------------------------
\* Invocations of the admin tools

InitAdmin ==
    /\ InitOther
    /\ InitAux

\* the tools node calls cancel_leave_for_employee (one call is followed)
InvokeCancelAdmin(token, response_ok, employees, employee_name, date, found, write_ok) ==
    /\ tret = NoCall
    /\ tret' = [tool |-> "cancel_leave_for_employee", token |-> token,
                response_ok |-> response_ok, employees |-> employees,
                employee_name |-> employee_name, date |-> date,
                outcome |-> cancel_leave_for_employee(token, response_ok, employees,
                                employee_name, date, found, write_ok)]
    /\ UNCHANGED notTool

\* the tools node calls apply_leave_for_employee (one call is followed)
InvokeApplyAdmin(token, response_ok, employees, employee_name, date, found, write_ok) ==
    /\ tret = NoCall
    /\ tret' = [tool |-> "apply_leave_for_employee", token |-> token,
                response_ok |-> response_ok, employees |-> employees,
                employee_name |-> employee_name, date |-> date,
                outcome |-> apply_leave_for_employee(token, response_ok, employees,
                                employee_name, date, found, write_ok)]
    /\ UNCHANGED notTool

NextAdmin ==
    \E token \in Tokens, response_ok \in BOOLEAN, employees \in SUBSET Staff,
       employee_name \in NameQueries, date \in Dates, found \in BOOLEAN,
       write_ok \in BOOLEAN :
         \/ InvokeCancelAdmin(token, response_ok, employees, employee_name, date,
                              found, write_ok)
         \/ InvokeApplyAdmin(token, response_ok, employees, employee_name, date,
                             found, write_ok)

SpecAdmin == InitAdmin /\ [][NextAdmin]_vars

----------------------------------------------------------------------------
\* Checkpoints, chat history and the memory endpoint

InitMemory ==
    /\ InitOther
    /\ InitAux

\* a graph step on the thread: the checkpointer writes a checkpoint row and
\* some of the rows of its writes and blobs
WriteCheckpoint(thread_id, also) ==
    /\ count_where(tables.checkpoints, thread_id) < MaxRows
    /\ LET row == [thread_id |-> thread_id,
                   n |-> count_where(tables.checkpoints, thread_id) + 1]
       IN tables' = [name \in DOMAIN tables |->
                        IF name = "checkpoints" \/ name \in also
                        THEN tables[name] \cup {row} ELSE tables[name]]
    /\ mret' = NoMemOp
    /\ UNCHANGED notMem

\* POST /chat: get_or_create_thread and add_message of the history service
SaveHistory(thread_id) ==
    /\ count_where(tables.chat_messages, thread_id) < MaxRows
    /\ tables' = [tables EXCEPT
                    !.chat_threads = @ \cup {[thread_id |-> thread_id, n |-> 1,
                                              user_id |-> thread_owner(thread_id)]},
                    !.chat_messages = @ \cup
                        {[thread_id |-> thread_id,
                          n |-> count_where(tables.chat_messages, thread_id) + 1]}]
    /\ mret' = NoMemOp
    /\ UNCHANGED notMem

\* DELETE /memory/{thread_id} by an authenticated user
DeleteThreadMemory(thread_id, current_user) ==
    /\ tables' = delete_thread_memory(tables, thread_id)
    /\ mret' = [op |-> "delete", thread_id |-> thread_id, user |-> current_user,
                prev |-> tables, status |-> 200]
    /\ UNCHANGED notMem

\* DELETE /memory by an authenticated user
DeleteAllMemory(current_user) ==
    /\ tables' = delete_all_memory(tables, current_user)
    /\ mret' = [op |-> "delete_all", thread_id |-> "", user |-> current_user,
                prev |-> tables, status |-> 200]
    /\ UNCHANGED notMem

NextMemory ==
    \/ \E thread_id \in MemThreads, also \in SUBSET (CheckpointTables \ {"checkpoints"}) :
          WriteCheckpoint(thread_id, also)
    \/ \E thread_id \in MemThreads : SaveHistory(thread_id)
    \/ \E thread_id \in MemThreads, current_user \in MemUsers :
          DeleteThreadMemory(thread_id, current_user)
    \/ \E current_user \in MemUsers : DeleteAllMemory(current_user)

SpecMemory == InitMemory /\ [][NextMemory]_vars

----------------------------------------------------------------------------
\* Calls of POST /tools/call

InitRegistry ==
    /\ InitOther
    /\ InitAux

\* POST /tools/call on the tool list the sources expose (one call is followed)
CallTool(tools, tool_name, server_name, ainvoke, invoke) ==
    /\ tret = NoCall
    /\ tret' = [tool |-> "call_tool", tools |-> tools, tool_name |-> tool_name,
                server_name |-> server_name,
                ainvoke |-> ainvoke, invoke |-> invoke,
                outcome |-> call_tool(tools, tool_name, server_name, ainvoke, invoke)]
    /\ UNCHANGED notTool

NextRegistry ==
    \E tools \in Registries, tool_name \in RequestNames, server_name \in RequestServers :
        \E ainvoke \in Invocations, invoke \in Invocations :
            CallTool(tools, tool_name, server_name, ainvoke, invoke)

SpecRegistry == InitRegistry /\ [][NextRegistry]_vars

----------------------------------------------------------------------------
\* Calls of the helpers of the graph nodes (app/workflows/nodes.py)

QuestionMessages ==
    {HumanMessage(UserText), HumanMessage(RewriteText), AIMessage(<<"a">>, <<>>),
     AIMessage(<<>>, WithIds(<<RetrieverName>>, 1)), ToolMessage(DocsText, 1, RetrieverName)}

\* the message sequences handed to _get_latest_user_question
QuestionInputs == UNION {[1..n -> QuestionMessages] : n \in 0..MaxQLen}

\* what a tool message can carry: nothing, white space, text
ToolContents == {<<>>, <<" ">>, DocsText}

\* the messages of the turns that ended before the current one
Histories == {<<>>, <<HumanMessage(UserText), AIMessage(<<"a">>, <<>>)>>}

\* the messages of a state that reaches generate_answer: the history of the
\* thread, the question, the assistant message that declares the calls and
\* one tool message per call
AnswerInputs ==
    UNION {{h \o <<HumanMessage(q), AIMessage(<<>>, WithIds(names, 1))>>
              \o [k \in 1..n |-> ToolMessage(cs[k], k, names[k])] :
              h \in Histories, q \in {UserText, RewriteText},
              names \in [1..n -> {RetrieverName, "get_leave_balance"}],
              cs \in [1..n -> ToolContents]} : n \in 1..MaxCalls}

InitNodes ==
    /\ InitOther
    /\ InitAux

\* a node asks for the question of the turn (one call is followed)
AskQuestion(msgs, exclude_last) ==
    /\ tret = NoCall
    /\ tret' = [tool |-> "get_latest_user_question", messages |-> msgs,
                exclude_last |-> exclude_last,
                outcome |-> get_latest_user_question(msgs, exclude_last)]
    /\ UNCHANGED notTool

\* the graph runs generate_answer on a state that reached it
RunAnswer(msgs, response) ==
    /\ tret = NoCall
    /\ tret' = [tool |-> "generate_answer", messages |-> msgs, response |-> response,
                outcome |-> generate_answer(msgs, response)]
    /\ UNCHANGED notTool

NextNodes ==
    \/ \E msgs \in QuestionInputs, exclude_last \in BOOLEAN : AskQuestion(msgs, exclude_last)
    \/ \E msgs \in AnswerInputs, response \in ModelTexts \ {<<>>} : RunAnswer(msgs, response)

SpecNodes == InitNodes /\ [][NextNodes]_vars

----------------------------------------------------------------------------
\* The human-in-the-loop nodes of app/workflows/nodes.py

\* the stored messages as an update that names each by its id (its position)
as_stored(msgs) == [i \in DOMAIN msgs |-> [id |-> i, msg |-> msgs[i]]]

\* a state update that takes the returned list for the new state
add_messages_overwrite(left, right) ==
    IF right = <<>> THEN left ELSE [k \in DOMAIN right |-> right[k].msg]

\* the messages reducer of MessagesState: an update message with the id of a
\* stored message replaces it, a message without id (0) is appended
RECURSIVE add_messages(_, _)
add_messages(left, right) ==
    IF right = <<>> THEN left
    ELSE LET r == Head(right)
             merged == IF r.id \in DOMAIN left
                       THEN [left EXCEPT ![r.id] = r.msg]
                       ELSE Append(left, r.msg)
         IN add_messages(merged, Tail(right))

\* hitl_settings as the gate reads them
GatePolicies ==
    [enabled : BOOLEAN, use_node_level_gate : BOOLEAN, require_approval_for : {{}}]

\* tool calls with their arguments
ArgValues == {"x", "y"}
CallsWithArgs ==
    UNION {[1..n -> [name : ToolNames, args : ArgValues]] : n \in 0..MaxCalls}

\* the states handed to the gate: no message, a user message, a user message
\* and the assistant message that follows it
GateInputs ==
    {<<>>, <<HumanMessage(UserText)>>}
    \cup {<<HumanMessage(UserText), AIMessage(<<>>, c)>> : c \in CallsWithArgs}

\* the value interrupt() returns: None on the first run of the node (the run
\* is suspended), the resume value on the run after the decision
GateDecisions ==
    {None} \cup {Some(d) : d \in [approved : BOOLEAN, action : {"approve", "reject", ""}]}

GotoTools == [kind |-> "goto", goto |-> "tools", update |-> <<>>, payload |-> None]

RejectionText == <<"Please don't perform that action. Suggest alternatives instead.">>

\* the sensitive calls of a call list, in order, as pending_actions lists them
RECURSIVE pending_sensitive_tools(_, _)
pending_sensitive_tools(tool_calls, sensitive_tools) ==
    IF tool_calls = <<>> THEN <<>>
    ELSE (IF Head(tool_calls).name \in sensitive_tools
          THEN <<[tool |-> Head(tool_calls).name, args |-> Head(tool_calls).args]>>
          ELSE <<>>)
         \o pending_sensitive_tools(Tail(tool_calls), sensitive_tools)

\* a gate that asks for every tool call
human_approval_node_any_call(p, msgs, resumed) ==
    IF msgs = <<>> \/ ~should_use_node_level_gate(p) THEN GotoTools
    ELSE IF Last(msgs).calls = <<>> THEN GotoTools
    ELSE [kind |-> "interrupt", goto |-> "", update |-> <<>>,
          payload |-> Some([action |-> "tool_approval",
                            pending_actions |-> pending_sensitive_tools(Last(msgs).calls, ToolNames),
                            options |-> Decisions])]

\* human_approval_node
human_approval_node(p, msgs, resumed) ==
    IF ~should_use_node_level_gate(p) THEN GotoTools
    ELSE IF msgs = <<>> THEN GotoTools
    ELSE IF Last(msgs).calls = <<>> THEN GotoTools
    ELSE LET pending_actions == pending_sensitive_tools(Last(msgs).calls, SENSITIVE_TOOLS)
         IN IF pending_actions = <<>> THEN GotoTools
            ELSE IF resumed = None
                 THEN [kind |-> "interrupt", goto |-> "", update |-> <<>>,
                       payload |-> Some([action |-> "tool_approval",
                                         pending_actions |-> pending_actions,
                                         options |-> Decisions])]
            ELSE IF ~resumed[1].approved /\ resumed[1].action # "approve"
                 THEN [kind |-> "goto", goto |-> "generate_query_or_respond",
                       update |-> <<[id |-> 0, msg |-> HumanMessage(RejectionText)]>>,
                       payload |-> None]
            ELSE GotoTools

\* hitl_settings as the document review reads them
ReviewPolicies == [enabled : BOOLEAN, review_documents : BOOLEAN]

should_review_documents(p) ==
    IF ~p.enabled THEN FALSE ELSE p.review_documents

ReviewRejectText ==
    <<"The retrieved documents are not relevant. Please reformulate the search.">>

ContextSeparator == <<"--- User-provided context ---">>

\* a retrieved text of fewer than 50 characters
ShortText == <<"s">>

\* not context or len(context.strip()) < 50
no_meaningful_documents(context) ==
    context = <<>> \/ blank(context) \/ context = ShortText

\* the value interrupt() returns in the review node: None on the first run,
\* the review of the user on the run after it
ReviewResults ==
    {None} \cup {Some(r) : r \in [action : {"use_all", "add_context", "reject_all"},
                                  additional_context : {<<>>, <<"extra">>}]}

RECURSIVE last_retrieval_index(_, _)
\* index of the most recent response of the retrieval tool among the first i
last_retrieval_index(msgs, i) ==
    IF i = 0 THEN 0
    ELSE IF msgs[i].type = "tool" /\ msgs[i].name = RetrieverName THEN i
    ELSE last_retrieval_index(msgs, i - 1)

\* document_review_node: the interrupt it raises or the update it returns,
\* and the node it names (none when the edge of the graph decides)
document_review_node(p, msgs, review_result) ==
    LET i == last_retrieval_index(msgs, Len(msgs))
        context == IF i = 0 THEN <<>> ELSE msgs[i].content
        as_is == [kind |-> "update", goto |-> "", update |-> as_stored(msgs)]
    IN IF ~should_review_documents(p) THEN as_is
       ELSE IF no_meaningful_documents(context) THEN as_is
       ELSE IF review_result = None
            THEN [kind |-> "interrupt", goto |-> "", update |-> <<>>]
       ELSE IF review_result[1].action = "reject_all"
            THEN [kind |-> "update", goto |-> "rewrite_question",
                  update |-> <<[id |-> 0, msg |-> HumanMessage(ReviewRejectText)]>>]
       ELSE IF review_result[1].action = "add_context"
               /\ review_result[1].additional_context # <<>>
            THEN LET enhanced_context ==
                         context \o ContextSeparator \o review_result[1].additional_context
                 IN [kind |-> "update", goto |-> "",
                     update |-> [k \in DOMAIN msgs |->
                        IF msgs[k].type = "tool" /\ msgs[k].name = RetrieverName
                        THEN [id |-> 0,
                              msg |-> ToolMessage(enhanced_context, msgs[k].tcid, RetrieverName)]
                        ELSE [id |-> k, msg |-> msgs[k]]]]
       ELSE as_is

\* the states that reach a review of retrieved documents: the history of the
\* thread, the question, the retrieval call and its response
ReviewInputs ==
    {h \o <<HumanMessage(q), AIMessage(<<>>, WithIds(<<RetrieverName>>, 1)),
            ToolMessage(c, 1, RetrieverName)>> :
        h \in Histories, q \in {UserText, RewriteText}, c \in {<<>>, ShortText, DocsText}}

InitGate ==
    /\ InitOther
    /\ InitAux

\* the gate node runs on a state (one run is followed)
RunGate(p, msgs, resumed) ==
    /\ tret = NoCall
    /\ LET out == human_approval_node(p, msgs, resumed)
       IN tret' = [tool |-> "human_approval_node", policy |-> p, messages |-> msgs,
                   decision |-> resumed, outcome |-> out,
                   after |-> add_messages(msgs, out.update)]
    /\ UNCHANGED notTool

\* the review node runs on a state (one run is followed); the record keeps
\* the messages after the update and the question rewrite_question would read
RunReview(p, msgs, review_result) ==
    /\ tret = NoCall
    /\ LET out == document_review_node(p, msgs, review_result)
           after == add_messages(msgs, out.update)
       IN tret' = [tool |-> "document_review_node", policy |-> p, messages |-> msgs,
                   review_result |-> review_result, outcome |-> out, after |-> after,
                   question |-> get_latest_user_question(after, FALSE)]
    /\ UNCHANGED notTool

NextGate ==
    \/ \E p \in GatePolicies, msgs \in GateInputs, resumed \in GateDecisions :
          RunGate(p, msgs, resumed)
    \/ \E p \in ReviewPolicies, msgs \in ReviewInputs, review_result \in ReviewResults :
          RunReview(p, msgs, review_result)

SpecGate == InitGate /\ [][NextGate]_vars

\* the turns of a thread on the compiled graph, or one run of a node that
\* nodes.py defines and the graph does not contain, made on its own before
\* the thread has seen a request
NextAppend ==
    \/ tret = NoCall /\ Next
    \/ mode = "none" /\ messages = <<>> /\ ~running /\ NextGate

SpecAppend == Init /\ [][NextAppend]_vars

----------------------------------------------------------------------------
\* Properties of the conversation state machine and its event streams

GatePolicy == should_use_node_level_gate(policy)

\* number of times the call with this id was performed
Performed(id) == Cardinality({k \in DOMAIN executed : executed[k].id = id})

RunEnded == ~running /\ events # <<>>

\* the node actions of a run in flight
Step ==
    ModelRaises \/ Answer \/ Rewrite \/ ToolsComplete \/ ToolsSuspend \/ ToolsGraderRaises
    \/ Decide

\* C1: under a policy that enables the human gate, no sensitive tool call is
\* performed unless an approve decision for that pending call was received
\* first.
C1_GateBeforeSensitiveTool ==
    GatePolicy =>
        \A k \in DOMAIN executed :
            executed[k].name \in SENSITIVE_TOOLS => executed[k].id \in approved

\* C2: when the sensitive request of a gate-policy turn is answered with a
\* reject decision, none of the sensitive calls the turn declared has been
\* performed, and the resumed run ends with a done event.
C2_RejectedToolNeverExecuted ==
    (RunEnded /\ mode = "resume" /\ decision = "reject" /\ GatePolicy
        /\ sensitiveCalls # {})
    => /\ \A id \in sensitiveCalls : Performed(id) = 0
       /\ Last(events).type = "done"

\* C4: at most one rewrite transition occurs per logical question, the grade
\* step that follows a rewrite never routes to rewrite again, and a run takes
\* a bounded number of node steps, each of which can be taken.
C4_OneRewritePerQuestion ==
    /\ rewrites <= 1
    /\ node = "rewrite_question" => (rewrites = 0 /\ gradings = 1)
    /\ steps <= 6
    /\ running => ENABLED Step

C4_Witness ==
    running /\ rewrites = 1 /\ gradings = 2 /\ node = "generate_answer"

\* C5: the event stream of a run holds exactly one terminal event (done,
\* interrupt or error), which is its last event; a run stopped by an exception
\* ends with an error event.
C5_OneTerminalEventLast ==
    /\ \A i \in 1..(Len(events) - 1) : events[i].type = "token"
    /\ running => \A i \in DOMAIN events : events[i].type = "token"
    /\ (~running /\ mode # "none") =>
          (events # <<>> /\ Last(events).type \in TerminalTypes)
    /\ (~running /\ mode # "none" /\ node \notin {"none", END} /\ pending = NoInterrupt) =>
          Last(events).type = "error"
    /\ (~running /\ pending # NoInterrupt /\ steps > 0) => Last(events).type = "interrupt"

C5_Witness ==
    /\ ~running
    /\ Len(events) >= 2
    /\ events[1].type = "token"
    /\ Last(events).type = "interrupt"

\* C6: for every chat turn, the HTTP event stream ends with the terminal event
\* (done, interrupt or error) the orchestrator produced.
C6_HttpStreamEndsWithTerminal ==
    (RunEnded /\ mode = "chat") =>
        (http # <<>> /\ Last(http) = Last(events) /\ Last(http).type \in TerminalTypes)

\* C7: a chat turn that carries a sensitive action request under a policy that
\* enables the human gate yields exactly one interrupt event, with action
\* "tool_approval" and the options approve and reject, as its last event.
C7_SensitiveTurnInterrupts ==
    (RunEnded /\ mode = "chat" /\ GatePolicy /\ sensitiveCalls # {}) =>
        /\ Cardinality({i \in DOMAIN events : events[i].type = "interrupt"}) = 1
        /\ Last(events).type = "interrupt"
        /\ Last(events).interrupt_data.action = "tool_approval"
        /\ {"approve", "reject"} \subseteq Last(events).interrupt_data.options

\* C8: an approve decision for the sensitive request of a gate-policy turn
\* resumes a thread that was suspended with a pending tool_approval interrupt,
\* and the resumed run performs each declared sensitive call once, as the
\* run of an auto-approving gate does.
C8_ResumeExactness ==
    (RunEnded /\ mode = "resume" /\ decision = "approve" /\ GatePolicy
        /\ sensitiveCalls # {} /\ Last(events).type = "done")
    => /\ consumed
       /\ \A id \in sensitiveCalls : Performed(id) = 1

\* C9: a resume on a thread that has no pending interrupt yields an error
\* event, runs no node, performs no tool and leaves the message sequence
\* unchanged.
C9_ResumeWithoutPendingIsError ==
    (RunEnded /\ mode = "resume" /\ ~consumed) =>
        /\ Last(events).type = "error"
        /\ steps = 0
        /\ Len(messages) = startLen

HasCalls(m) == m.type = "ai" /\ m.calls # <<>>

\* the call id declared at position i has a tool response after i and before
\* the next user message
Answered(msgs, i, id) ==
    \E j \in (i + 1)..Len(msgs) :
        /\ msgs[j].type = "tool" /\ msgs[j].tcid = id
        /\ \A m \in (i + 1)..(j - 1) : msgs[m].type # "human"

DeclaredIds(m) == {m.calls[k].id : k \in DOMAIN m.calls} \ {0}

Unanswered(msgs, i) ==
    /\ HasCalls(msgs[i])
    /\ \/ DeclaredIds(msgs[i]) = {}
       \/ \E id \in DeclaredIds(msgs[i]) : ~Answered(msgs, i, id)

\* the sequence that entered the first decide step of a chat turn
Entering == SubSeq(messages, 1, Len(messages) - 1)

AfterFirstDecide == mode = "chat" /\ steps = 1 /\ Len(messages) = startLen + 2

\* C3: the cleaned sequence handed to the model contains an assistant message
\* with tool calls only if every id it declares has a tool response later and
\* before the next user message; the cleaned sequence is the entering sequence
\* without the assistant messages for which that fails.
C3_CleanedKeepsOnlyAnsweredCalls ==
    /\ \A k \in DOMAIN cleaned :
          HasCalls(cleaned[k]) =>
              \A id \in DeclaredIds(cleaned[k]) : Answered(cleaned, k, id)
    /\ AfterFirstDecide =>
          LET keep == {i \in DOMAIN Entering : ~Unanswered(Entering, i)}
              nth(k) == CHOOSE i \in keep : Cardinality({j \in keep : j < i}) = k - 1
          IN /\ Len(cleaned) = Cardinality(keep)
             /\ \A k \in DOMAIN cleaned : cleaned[k] = Entering[nth(k)]

\* two declared calls, one response: the assistant message is left out, and
\* another assistant message whose calls were answered is kept
C3_Witness ==
    /\ AfterFirstDecide
    /\ \E i \in DOMAIN Entering :
          /\ Cardinality(DeclaredIds(Entering[i])) = 2
          /\ \E id \in DeclaredIds(Entering[i]) : Answered(Entering, i, id)
          /\ Unanswered(Entering, i)
    /\ \E k \in DOMAIN cleaned : HasCalls(cleaned[k])
    /\ Len(cleaned) = Len(Entering) - 1

Owned(user_id) == {i \in DOMAIN store : store[i].owner = user_id}

\* C10: the results of a retrieval in a turn of actor A are chunks owned by A,
\* at most 5 of them, and as many as A owns up to 5; no chunk of another
\* actor is among them, whatever was retrieved before.
C10_RetrievalScopedToActor ==
    actor # NoUser =>
        /\ \A k \in DOMAIN results : store[results[k]].owner = actor
        /\ Len(results) <= 5
        /\ Len(results) = (IF Cardinality(Owned(actor)) < 5 THEN Cardinality(Owned(actor)) ELSE 5)
        /\ \A j, k \in DOMAIN results : j # k => results[j] # results[k]

\* five results for the actor while the store holds another user's chunk
C10_Witness ==
    /\ actor # NoUser
    /\ Len(results) = 5
    /\ \E i \in DOMAIN store : store[i].owner # actor

----------------------------------------------------------------------------
\* Properties of the session context store

RowsOf(tbl, session_id) == {i \in DOMAIN tbl : tbl[i].session_id = session_id}

RowOf(tbl, session_id) == tbl[CHOOSE i \in RowsOf(tbl, session_id) : TRUE]

OthersOf(tbl, session_id) == SelectSeq(tbl, LAMBDA r : r.session_id # session_id)

\* the session the operation is about had a record before the operation
Had == RowsOf(sret.prev, sret.session_id) # {}

\* that record's expires_at is earlier than the current time
WasExpired ==
    /\ Had
    /\ RowOf(sret.prev, sret.session_id).expires_at # None
    /\ RowOf(sret.prev, sret.session_id).expires_at[1] < now

\* C14: create_session is an upsert: afterwards exactly one record holds the
\* session_id, with the actor id and name of the call and, for a positive
\* ttl, the expiry now + ttl; an existing record is updated in place; no
\* session_id ever has more than one record.
C14_CreateIsIdempotentUpsert ==
    /\ \A s \in SessionIds : Cardinality(RowsOf(sessions, s)) <= 1
    /\ sret.op = "create" =>
          /\ Cardinality(RowsOf(sessions, sret.session_id)) = 1
          /\ RowOf(sessions, sret.session_id).employee_id = sret.employee_id
          /\ RowOf(sessions, sret.session_id).employee_name = sret.employee_name
          /\ sret.ttl_hours > 0 =>
                RowOf(sessions, sret.session_id).expires_at = <<now + sret.ttl_hours>>
          /\ Had => /\ Len(sessions) = Len(sret.prev)
                    /\ RowsOf(sessions, sret.session_id) = RowsOf(sret.prev, sret.session_id)

\* a second create_session for a session_id, with another actor
C14_Witness ==
    /\ sret.op = "create"
    /\ Had
    /\ RowOf(sret.prev, sret.session_id).employee_id # sret.employee_id
    /\ RowOf(sret.prev, sret.session_id).expires_at # RowOf(sessions, sret.session_id).expires_at

\* C15: a session created with a ttl of 0 is absent on every get made after
\* time has passed, and that get leaves no record of it.
C15_ZeroTtlSessionIsAbsent ==
    (sret.op = "get" /\ sret.known # None /\ sret.known[1].ttl_hours = 0
        /\ ~sret.known[1].new)
    => (sret.value = None /\ RowsOf(sessions, sret.session_id) = {})

\* C16: get_session returns absent for a record whose expires_at is earlier
\* than the current time and removes the record; for a record that is not
\* expired it returns the session_id, actor id and actor name and leaves the
\* table unchanged.
C16_GetDeletesExpiredLazily ==
    sret.op = "get" =>
        /\ WasExpired =>
              (sret.value = None /\ RowsOf(sessions, sret.session_id) = {})
        /\ (Had /\ ~WasExpired) =>
              /\ sret.value =
                    <<[session_id |-> sret.session_id,
                       employee_id |-> RowOf(sret.prev, sret.session_id).employee_id,
                       employee_name |-> RowOf(sret.prev, sret.session_id).employee_name]>>
              /\ sessions = sret.prev
        /\ ~Had => (sret.value = None /\ sessions = sret.prev)

C16_Witness ==
    sret.op = "get" /\ WasExpired /\ Len(sessions) < Len(sret.prev)

\* C17: refresh_session returns false and changes nothing for an expired or
\* missing session; for a live session it returns true and sets the expiry to
\* now + ttl, changing nothing else.
C17_RefreshOnlyLiveSessions ==
    sret.op = "refresh" =>
        /\ (~Had \/ WasExpired) => (sret.value = FALSE /\ sessions = sret.prev)
        /\ (Had /\ ~WasExpired) =>
              /\ sret.value = TRUE
              /\ sessions =
                    [sret.prev EXCEPT
                        ![CHOOSE i \in RowsOf(sret.prev, sret.session_id) : TRUE].expires_at =
                            <<now + sret.ttl_hours>>]

C17_Witness ==
    sret.op = "refresh" /\ WasExpired /\ sret.value = FALSE

\* C18: a session initialised without an expiry (expires_at absent) is
\* returned by every later get, whatever get, refresh and chat requests and
\* however much time came in between, until it is deleted or initialised again.
C18_NoExpiryNeverExpires ==
    (sret.op = "get" /\ sret.known # None /\ sret.known[1].ttl_hours = 0)
    => sret.value # None

\* C19: delete_session returns true and removes the record of an existing
\* session_id, returns false and changes nothing otherwise; after a delete,
\* get reports absent with status 404 and another delete returns false.
C19_DeleteRemovesRecord ==
    /\ sret.op = "delete" =>
          /\ Had => /\ sret.value = TRUE /\ sret.status = 200
                    /\ RowsOf(sessions, sret.session_id) = {}
                    /\ Len(sessions) = Len(sret.prev) - 1
          /\ ~Had => (sret.value = FALSE /\ sret.status = 404 /\ sessions = sret.prev)
          /\ sret.known = None => sret.value = FALSE
    /\ (sret.op = "get" /\ sret.known = None) => (sret.value = None /\ sret.status = 404)

C19_Witness ==
    sret.op = "delete" /\ sret.value = TRUE /\ Len(sret.prev) = 2

\* C20: an operation on one session_id leaves the records of every other
\* session_id unchanged, and a get that finds the session returns the actor
\* id and name last stored for it.
C20_SessionsDoNotInterfere ==
    /\ sret.op # "none" =>
          OthersOf(sessions, sret.session_id) = OthersOf(sret.prev, sret.session_id)
    /\ (sret.op \in {"get", "chat"} /\ sret.value # None) =>
          /\ sret.known # None
          /\ sret.value[1].employee_id = sret.known[1].employee_id
          /\ sret.value[1].employee_name = sret.known[1].employee_name

C20_Witness ==
    /\ sret.op = "get" /\ sret.value # None
    /\ OthersOf(sessions, sret.session_id) # <<>>
    /\ OthersOf(sessions, sret.session_id)[1].employee_id # sret.value[1].employee_id

----------------------------------------------------------------------------
\* Actor context and thread isolation

\* C11: with turns for different actors in flight at the same time, in any
\* interleaving of their set, tool-read and clear steps, every value a tool
\* of a turn reads from the employee context is the employee_id that was
\* supplied to that same turn.
C11_ToolReadsOwnActor ==
    \A t \in Turns : seen[t] \subseteq {supplied[t]}

\* one turn has set, been read and cleared while the other, for another
\* employee, was running and had its tool read the context after that clear
C11_Witness ==
    /\ supplied["t1"] # None /\ supplied["t2"] # None
    /\ supplied["t1"] # supplied["t2"]
    /\ pc["t1"] = "done" /\ seen["t1"] # {}
    /\ pc["t2"] = "running" /\ seen["t2"] # {}
    /\ ctx["t1"] = None /\ ctx["t2"] = supplied["t2"]

\* C12: turns on different thread_ids are independent: at every point of
\* every interleaving the stored messages of a thread are exactly the
\* messages of its own turns in order, so a turn on a known thread continues
\* from the stored history of that thread and a turn on a new thread starts
\* from the empty history.
C12_ThreadsIndependent ==
    \A t \in ThreadIds :
      /\ checkpoints[t] = solo[t]
      /\ t \notin known => checkpoints[t] = <<>>
      /\ (inTurn[t] /\ thrTurns[t] = 0) => checkpoints[t] = <<HumanMessage(<<t>>)>>
      /\ (inTurn[t] /\ thrTurns[t] = 1) =>
            /\ Len(checkpoints[t]) = 3
            /\ checkpoints[t][1] = HumanMessage(<<t>>)
            /\ checkpoints[t][2].type = "ai"
            /\ checkpoints[t][3] = HumanMessage(<<t>>)

\* thread A is in its second turn while B is in its first and C has finished one
C12_Witness ==
    /\ inTurn["A"] /\ thrTurns["A"] = 1
    /\ inTurn["B"] /\ thrTurns["B"] = 0
    /\ ~inTurn["C"] /\ thrTurns["C"] = 1

----------------------------------------------------------------------------
\* HR action tools

\* C13: an HR action tool never raises to its caller: whatever the date
\* argument, the authentication, the network and the response of the HRMS
\* are, the invocation returns a text.
C13_ToolNeverRaises ==
    tret.tool # "none" => (~tret.outcome.raised /\ tret.outcome.value # None)

----------------------------------------------------------------------------
\* Actor resolution of a turn

----------------------------------------------------------------------------
\* The content of the completion event

\* the chat turn has ended at END with a done event, after the machine
\* appended an assistant message
TurnDone ==
    /\ mode = "chat" /\ ~running /\ node = END
    /\ events # <<>> /\ Last(events).type = "done"
    /\ Len(messages) > startLen + 1
    /\ Last(messages).type = "ai"

\* C22: when a turn ends with a done event, the content of the event is the
\* text of the final assistant message the machine produced (direct
\* response, synthesized answer or fixed fallback answer).
C22_DoneCarriesFullAnswer ==
    TurnDone => Last(events).content = Last(messages).content

----------------------------------------------------------------------------
\* Ambiguous employee names

AdminTools == {"cancel_leave_for_employee", "apply_leave_for_employee"}

\* the call reached the name search, which matched more than one employee
Ambiguous ==
    /\ tret.tool \in AdminTools
    /\ tret.token # None /\ tret.response_ok
    /\ Cardinality(matches(tret.employees, tret.employee_name)) > 1

\* C23: when the name search matches more than one employee, the admin tool
\* does not raise, returns the text that asks for a more specific name and
\* makes no write call against the HR system.
C23_AmbiguousNameIsTextNoWrite ==
    Ambiguous =>
        /\ ~tret.outcome.raised
        /\ tret.outcome.value = Some(MultipleText)
        /\ tret.outcome.writes = <<>>

\* a cancel call whose name matches two employees, with every other input
\* of the call in order
C23_Witness ==
    /\ Ambiguous
    /\ tret.tool = "cancel_leave_for_employee"
    /\ tret.employee_name = <<"neha">>
    /\ is_iso_date(tret.date)
    /\ tret.outcome.writes = <<>>

----------------------------------------------------------------------------
\* Clearing the memory of a thread

\* C24: clearing memory for a thread_id succeeds whether or not a ChatThread
\* record exists, leaves no row of that thread_id in checkpoints,
\* checkpoint_writes and checkpoint_blobs, and leaves the rows of every other
\* thread_id in those tables as they were.
C24_ClearMemoryRemovesThreadOnly ==
    mret.op = "delete" =>
        /\ mret.status = 200
        /\ \A name \in CheckpointTables :
              /\ count_where(tables[name], mret.thread_id) = 0
              /\ \A other \in MemThreads \ {mret.thread_id} :
                    {r \in tables[name] : r.thread_id = other}
                        = {r \in mret.prev[name] : r.thread_id = other}

\* memory is cleared for a thread that has checkpoint rows in the three
\* tables and no ChatThread record, while another thread has rows too
C24_Witness ==
    /\ mret.op = "delete"
    /\ count_where(mret.prev.chat_threads, mret.thread_id) = 0
    /\ \A name \in CheckpointTables :
          /\ count_where(mret.prev[name], mret.thread_id) > 0
          /\ \E r \in tables[name] : r.thread_id # mret.thread_id

----------------------------------------------------------------------------
\* Tool name resolution

InRegistry(name) == \E i \in DOMAIN tret.tools : tret.tools[i] = name

\* C25: a call that gives a qualified name present in the registry invokes
\* that tool; a call that gives an unqualified name and names a source
\* exposing it invokes the tool of that source; an unqualified name with no
\* exact match invokes a tool of that name of one of the sources.
C25_NamedSourceIsInvoked ==
    tret.tool = "call_tool" =>
        /\ (tret.tool_name.server # "" /\ InRegistry(tret.tool_name)) =>
              tret.outcome.target = Some(tret.tool_name)
        /\ (/\ tret.tool_name.server = "" /\ ~InRegistry(tret.tool_name)
            /\ tret.server_name # None
            /\ InRegistry(Qualified(tret.server_name[1], tret.tool_name.tool))) =>
              tret.outcome.target = Some(Qualified(tret.server_name[1], tret.tool_name.tool))
        /\ (/\ tret.tool_name.server = "" /\ ~InRegistry(tret.tool_name)
            /\ \E sv \in Servers : InRegistry(Qualified(sv, tret.tool_name.tool))) =>
              /\ tret.outcome.target # None
              /\ tret.outcome.target[1].tool = tret.tool_name.tool
              /\ InRegistry(tret.outcome.target[1])

----------------------------------------------------------------------------
\* The thread_id of a turn

\* C26: a turn whose thread_id is absent or blank runs on a generated
\* thread_id that is not blank and differs from the thread_id of every turn
\* started before it, finished or still in flight; a turn with a non-blank
\* thread_id runs on exactly that id; every event of a turn carries the
\* thread_id of the turn.
C26_ThreadIdOfTurn ==
    /\ tstart.op = "start" =>
          IF tstart.given = None \/ tstart.given[1] \in Blanks
          THEN tstart.thread_id \notin Blanks /\ tstart.thread_id \notin tstart.known
          ELSE tstart.thread_id = tstart.given[1]
    /\ \A t \in ThreadKeys : tevents[t] \subseteq {t}
    /\ \A t \in Blanks : ~inTurn[t] /\ checkpoints[t] = <<>>

\* a turn given a whitespace thread_id started on a generated id while the
\* turns of two other threads, one of them generated too, were in flight
C26_Witness ==
    /\ tstart.op = "start" /\ tstart.given = Some(" ")
    /\ Cardinality(tstart.known) = 2
    /\ \A t \in tstart.known : inTurn[t]
    /\ inTurn[tstart.thread_id]
    /\ \E t \in ThreadIds : tevents[t] # {}

----------------------------------------------------------------------------
\* Routing after the tools node

\* the tools node is about to complete its step: no call of the step waits
\* for a confirmation
ToolsCompleting ==
    /\ running /\ node = "tools"
    /\ interrupting(policy, Last(messages).calls, resumeVal) = {}

\* the messages the route_after_tools edge sees when the retrieval of the
\* step finds documents (docs) or none
AfterTools(docs) ==
    messages \o tool_messages(policy, Last(messages).calls, docs, resumeVal)

\* the retrieval tool is invoked in the step
RetrievalInvoked ==
    \E k \in DOMAIN Last(messages).calls : Last(messages).calls[k].name = RetrieverName

\* C27: on the first retrieval-and-grade cycle of a question (no rewrite has
\* happened for it), the grade step routes by the judgment: yes to answer, no
\* to rewrite.
C27_FirstGradeFollowsJudgment ==
    (ToolsCompleting /\ rewrites = 0) =>
        \A docs \in DocsFound(Last(messages).calls) :
            grades(AfterTools(docs)) =>
                /\ route_after_tools(AfterTools(docs), "yes") = "generate_answer"
                /\ route_after_tools(AfterTools(docs), "no") = "rewrite_question"

\* C29: after the tools node, a step in which the retrieval tool was invoked
\* is routed through grading, whatever the position of the retrieval call
\* among the calls of the step, and a step without a retrieval call is routed
\* to answer.
C29_RetrievalStepIsGraded ==
    ToolsCompleting =>
        \A docs \in DocsFound(Last(messages).calls) :
            /\ RetrievalInvoked => grades(AfterTools(docs))
            /\ ~RetrievalInvoked =>
                  \A score \in {"yes", "no"} :
                      route_after_tools(AfterTools(docs), score) = "generate_answer"

----------------------------------------------------------------------------
\* The helpers of the graph nodes

\* the user-role messages among the first n of a sequence
HumanIn(msgs, n) == {i \in 1..n : msgs[i].type = "human"}

\* the part of the sequence _get_latest_user_question searches
Searched(msgs, exclude_last) ==
    IF exclude_last /\ msgs # <<>> THEN Len(msgs) - 1 ELSE Len(msgs)

\* C28: when the searched messages (all of them, or all but the trailing one
\* with exclude_last) contain a user-role message, _get_latest_user_question
\* returns the content of the last of them, not that of the first message.
C28_LatestUserQuestion ==
    tret.tool = "get_latest_user_question" =>
        LET msgs == tret.messages
            H == HumanIn(msgs, Searched(msgs, tret.exclude_last))
        IN H # {} =>
              \E i \in H : /\ \A j \in H : j <= i
                           /\ tret.outcome = msgs[i].content

\* after a rewrite and a tool response, the question is the rewritten one
C28_Witness ==
    /\ tret.tool = "get_latest_user_question"
    /\ tret.exclude_last
    /\ tret.messages = <<HumanMessage(UserText), HumanMessage(RewriteText),
                         AIMessage(<<>>, WithIds(<<RetrieverName>>, 1)),
                         ToolMessage(DocsText, 1, RetrieverName)>>
    /\ tret.outcome = RewriteText

\* the content of the latest tool response of a sequence that has one
LatestToolContent(msgs) ==
    LET T == {i \in DOMAIN msgs : msgs[i].type = "tool"}
    IN msgs[CHOOSE i \in T : \A j \in T : j <= i].content

----------------------------------------------------------------------------
\* The human-in-the-loop nodes

\* the positions of the sensitive calls the last message declares
SensitiveCalls(msgs) ==
    IF msgs = <<>> THEN {}
    ELSE {k \in DOMAIN Last(msgs).calls : Last(msgs).calls[k].name \in SENSITIVE_TOOLS}

\* C31: the gate node interrupts if and only if the node-level gate is
\* enabled and the last message declares a sensitive tool call; the pending
\* actions of the interrupt are exactly those calls with their arguments, in
\* order; in every other case the node goes to the tools node with no
\* interrupt and no change of the messages.
C31_GateInterruptsIffSensitive ==
    (tret.tool = "human_approval_node" /\ tret.decision = None) =>
        LET msgs == tret.messages
            out == tret.outcome
            sens == SensitiveCalls(msgs)
            gated == tret.policy.enabled /\ tret.policy.use_node_level_gate /\ sens # {}
            nth(k) == CHOOSE i \in sens : Cardinality({j \in sens : j < i}) = k - 1
        IN /\ out.kind = "interrupt" <=> gated
           /\ gated =>
                 LET actions == out.payload[1].pending_actions
                 IN /\ Len(actions) = Cardinality(sens)
                    /\ \A k \in DOMAIN actions :
                          /\ actions[k].tool = Last(msgs).calls[nth(k)].name
                          /\ actions[k].args = Last(msgs).calls[nth(k)].args
           /\ ~gated => out = GotoTools

\* a sensitive call between two calls that are not sensitive
C31_Witness ==
    /\ tret.tool = "human_approval_node" /\ tret.decision = None
    /\ tret.messages # <<>>
    /\ Len(Last(tret.messages).calls) = 2
    /\ Last(tret.messages).calls[1].name = "get_leave_balance"
    /\ Last(tret.messages).calls[2].name = "apply_leave_for_employee"
    /\ tret.outcome.kind = "interrupt"
    /\ Len(tret.outcome.payload[1].pending_actions) = 1

\* a review was asked for and the user has answered it
Reviewed(action) ==
    /\ tret.tool = "document_review_node"
    /\ should_review_documents(tret.policy)
    /\ ~no_meaningful_documents(Last(tret.messages).content)
    /\ tret.review_result # None
    /\ tret.review_result[1].action = action

ToolResponses(msgs) == {i \in DOMAIN msgs : msgs[i].type = "tool"}

\* C32: on the answer of a document review, use_all leaves the messages
\* unchanged; add_context appends the supplied text to the content of the
\* existing retrieval response and adds no second tool response; reject_all
\* goes to rewrite, and the rewrite reads the user's question for which the
\* documents were retrieved.
C32_DocumentReviewOnResume ==
    /\ Reviewed("use_all") => tret.after = tret.messages
    /\ (Reviewed("add_context") /\ tret.review_result[1].additional_context # <<>>) =>
          /\ Len(tret.after) = Len(tret.messages)
          /\ ToolResponses(tret.after) = ToolResponses(tret.messages)
          /\ Last(tret.after).content =
                Last(tret.messages).content \o ContextSeparator
                    \o tret.review_result[1].additional_context
    /\ Reviewed("reject_all") =>
          /\ tret.outcome.goto = "rewrite_question"
          /\ tret.question = get_latest_user_question(tret.messages, FALSE)

\* s is an initial part of t
IsPrefix(s, t) == s = t \/ (Len(s) <= Len(t) /\ SubSeq(t, 1, Len(s)) = s)

HitlNodes == {"human_approval_node", "document_review_node"}

----------------------------------------------------------------------------
\* The repair pass as a frame

\* the messages of msgs at the positions K, in order
Restricted(msgs, K) ==
    LET nth(k) == CHOOSE i \in K : Cardinality({j \in K : j < i}) = k - 1
    IN [k \in 1..Cardinality(K) |-> msgs[nth(k)]]

\* C34: the cleaned sequence is the entering sequence at a set of positions,
\* in the original order and with no message twice; every user message, tool
\* message, assistant message without tool calls and assistant message whose
\* calls are all answered is at a kept position, and every position left out
\* holds an incomplete tool-calling assistant message.
C34_RepairKeepsPassingMessages ==
    AfterFirstDecide =>
        \E K \in SUBSET DOMAIN Entering :
            /\ cleaned = Restricted(Entering, K)
            /\ \A i \in DOMAIN Entering :
                  /\ Entering[i].type \in {"human", "tool"} => i \in K
                  /\ (Entering[i].type = "ai" /\ Entering[i].calls = <<>>) => i \in K
                  /\ (HasCalls(Entering[i]) /\ ~Unanswered(Entering, i)) => i \in K
                  /\ i \notin K => (HasCalls(Entering[i]) /\ Unanswered(Entering, i))

\* an assistant message with a partial response is left out and the response
\* that answered it is kept
C34_Witness ==
    /\ AfterFirstDecide
    /\ Len(cleaned) = Len(Entering) - 1
    /\ \E i \in DOMAIN Entering :
          /\ Unanswered(Entering, i)
          /\ \E j \in DOMAIN Entering :
                /\ j > i /\ Entering[j].type = "tool"
                /\ Entering[j].tcid \in DeclaredIds(Entering[i])
                /\ \E k \in DOMAIN cleaned : cleaned[k] = Entering[j]

\* every tool response of msgs comes after an assistant message of msgs that
\* declares its tool_call_id
NoOrphans(msgs) ==
    \A k \in DOMAIN msgs :
        msgs[k].type = "tool" =>
            \E a \in 1..(k - 1) :
                HasCalls(msgs[a]) /\ msgs[k].tcid \in DeclaredIds(msgs[a])

\* C36: when every tool response of the stored sequence has its assistant
\* message, so has every tool response of the cleaned sequence: no response
\* of a dropped assistant message is left behind.
C36_NoOrphanToolResponses ==
    (AfterFirstDecide /\ NoOrphans(Entering)) => NoOrphans(cleaned)

----------------------------------------------------------------------------
\* The actor context after a turn

\* C37: the actor context does not outlive a turn: once a turn has finished,
\* the employee context of its task reads none, and the tools of a turn that
\* was started without an employee_id read none, whatever the turns that ran
\* before it in the same context had set.
C37_ContextDoesNotOutliveTurn ==
    \A t \in Turns :
        /\ pc[t] = "done" => get_employee_id(ctx, t) = None
        /\ supplied[t] = None => seen[t] \subseteq {None}

\* a turn with no employee_id runs after a turn for an employee ended in the
\* same context, and its tool has read the context
C37_Witness ==
    \E t \in Turns :
        /\ earlier[t] \ {None} # {}
        /\ supplied[t] = None
        /\ pc[t] = "running"
        /\ seen[t] = {None}

----------------------------------------------------------------------------
\* Execution of a tool by POST /tools/call

\* C38: one request to POST /tools/call makes the target tool act at most
\* once, whether its invocation succeeds or fails.
C38_ToolActsAtMostOnce ==
    tret.tool = "call_tool" => tret.outcome.effects <= 1

----------------------------------------------------------------------------
\* Memory deletion and the owner of a thread

\* the threads that had a ChatThread record of another user before the
\* delete request
ThreadsOfOthers ==
    {r.thread_id : r \in {x \in mret.prev.chat_threads : x.user_id # mret.user}}

\* C39: a delete request of a user, for one thread or for all, leaves the
\* checkpoint rows and the chat history of every thread that belongs to
\* another user as they were.
C39_DeleteScopedToCaller ==
    mret.op \in {"delete", "delete_all"} =>
        \A name \in DOMAIN tables :
            {r \in tables[name] : r.thread_id \in ThreadsOfOthers}
                = {r \in mret.prev[name] : r.thread_id \in ThreadsOfOthers}

----------------------------------------------------------------------------
\* Confirmation asked by apply_leave_for_employee

LeaveTool == "apply_leave_for_employee"

\* the submissions (SaveEmployeeLeaveRequest3) made for the call with this id
Submissions(id) ==
    Cardinality({k \in DOMAIN executed :
                    executed[k].id = id /\ executed[k].name = LeaveTool})

C35_Witness ==
    /\ should_require_approval(policy, LeaveTool)
    /\ mode = "resume" /\ decision = "approve" /\ consumed
    /\ \E k \in DOMAIN executed :
          executed[k].name = LeaveTool /\ Submissions(executed[k].id) = 1
    /\ \E i \in DOMAIN messages :
          messages[i].name = LeaveTool /\ messages[i].content = ResultText

====
